---------------------------- MODULE Spec2Model ----------------------------
(***************************************************************************)
(* A model of the 1C contract generators:                                  *)
(*   - old/generate_contracts.py        the report tree builder (main)     *)
(*   - old/form_contracts_generator.py  the form markup / script merger    *)
(*   - src/core/metadata_generator.py   the second report parser           *)
(*                                                                         *)
(* Strings are TLA+ strings and the string functions of the source (strip, *)
(* split, startswith, replace, join, lower, "in") are computed character   *)
(* by character.  The module is kept in ASCII, so the Cyrillic literals of *)
(* the source are transliterated, length-preserving where the source       *)
(* slices by length:                                                       *)
(*   Spravochniki = Справочники      Dokumenty = Документы                 *)
(*   Rekvizity = Реквизиты           TablichnyeChasti = ТабличныеЧасти     *)
(*   "Kommentariy:" = "Комментарий:" (12 characters)                       *)
(*   "Tip:" = "Тип:" (4 characters)  Neopredeleno = Неопределено           *)
(***************************************************************************)
EXTENDS Integers, Sequences, FiniteSets, TLC

VARIABLES
    lines,               \* main: the lines read from the report
    i,                   \* main: index of the line the loop visits next (1-based)
    current_object,      \* main: the open entity, or None
    last_typed_element,  \* main: reference to the focus attribute / column, or NoFocus
    saved,               \* log of the save_contract calls of main, in call order
    files,               \* the output directory: a function path -> content
    pc,                  \* position of the running generator
    conf,                \* generate_all_form_contracts: the forms still to visit
    doc,                 \* parse_form_xml: the elements of Form.xml, in document order
    script,              \* parse_bsl_module: the lines of Module.bsl, or NoModule
    walked,              \* parse_form_xml: number of elements walk has visited
    form,                \* parse_form_xml: form_data, attributes_dict, tabular_sections_dict
    module_data,         \* generate_form_contract: the script overlay
    contract,            \* generate_form_contract: the merged contract
    objects,             \* MetadataGenerator.parse_report: the objects found so far
    run_dir,             \* MetadataGenerator: the working directory of the process
    args,                \* generate_all_contracts.main: the parsed command line
    success_count,       \* generate_all_contracts.main: passes that reported success
    total_count,         \* generate_all_contracts.main: passes that were started
    exit_status          \* generate_all_contracts.main: <<its return value>>, or NoStatus

mainVars == <<lines, i, current_object, last_typed_element, saved>>
formVars == <<conf, doc, script, walked, form, module_data, contract>>
metaVars == <<objects, run_dir>>
runVars == <<args, success_count, total_count, exit_status>>
vars == <<mainVars, formVars, metaVars, runVars, files, pc>>

\* no run of generate_all_contracts.main
NoArgs ==
    [report_exists |-> FALSE, conf_exists |-> FALSE,
     skip_metadata |-> FALSE, skip_forms |-> FALSE, scripts_found |-> FALSE]

\* the process has not returned; a returned status n is <<n>>
NoStatus == <<>>

RunIdle ==
    /\ args = NoArgs
    /\ success_count = 0
    /\ total_count = 0
    /\ exit_status = NoStatus

-----------------------------------------------------------------------------
(* Python string functions *)

Char(s, k) == SubSeq(s, k, k)

Whitespace == {" ", "\t", "\n", "\r"}

RECURSIVE LStripSet(_, _)
LStripSet(s, cs) ==
    IF Len(s) > 0 /\ Head(s) \in cs THEN LStripSet(Tail(s), cs) ELSE s

RECURSIVE RStripSet(_, _)
RStripSet(s, cs) ==
    IF Len(s) > 0 /\ Char(s, Len(s)) \in cs
    THEN RStripSet(SubSeq(s, 1, Len(s) - 1), cs) ELSE s

\* str.strip(chars)
StripSet(s, cs) == RStripSet(LStripSet(s, cs), cs)

\* str.lstrip() / str.strip()
LStrip(s) == LStripSet(s, Whitespace)
Strip(s) == StripSet(s, Whitespace)

\* str.startswith / str.endswith
StartsWith(s, p) == Len(s) >= Len(p) /\ SubSeq(s, 1, Len(p)) = p
EndsWith(s, p) == Len(s) >= Len(p) /\ SubSeq(s, Len(s) - Len(p) + 1, Len(s)) = p

\* p in s
Contains(s, p) ==
    \E k \in 1..(Len(s) - Len(p) + 1) : SubSeq(s, k, k + Len(p) - 1) = p

\* s[k:] with a 0-based k, as Python slices
From(s, k) == SubSeq(s, k + 1, Len(s))

\* index (1-based) of the first occurrence of p in s at or after k, 0 when
\* there is none
RECURSIVE FindFrom(_, _, _)
FindFrom(s, p, k) ==
    IF k + Len(p) - 1 > Len(s) THEN 0
    ELSE IF SubSeq(s, k, k + Len(p) - 1) = p THEN k
    ELSE FindFrom(s, p, k + 1)

Find(s, p) == FindFrom(s, p, 1)

\* str.split(sep) for a non-empty separator
RECURSIVE Split(_, _)
Split(s, sep) ==
    LET k == Find(s, sep)
    IN IF k = 0 THEN <<s>>
       ELSE <<SubSeq(s, 1, k - 1)>> \o Split(From(s, k - 1 + Len(sep)), sep)

\* str.replace(old, new) for a non-empty old
RECURSIVE Replace(_, _, _)
Replace(s, old, new) ==
    LET k == Find(s, old)
    IN IF k = 0 THEN s
       ELSE SubSeq(s, 1, k - 1) \o new \o Replace(From(s, k - 1 + Len(old)), old, new)

\* sep.join(parts)
RECURSIVE Join(_, _)
Join(parts, sep) ==
    IF Len(parts) = 0 THEN ""
    ELSE IF Len(parts) = 1 THEN parts[1]
    ELSE parts[1] \o sep \o Join(Tail(parts), sep)

Digits == {"0", "1", "2", "3", "4", "5", "6", "7", "8", "9"}

\* \W of a regular expression, over the characters the reports of the model use
NonWord == Whitespace \cup {"\"", ",", ".", ":", "-", ";", "(", ")", "=", "/", "&"}

\* the maximal runs of word characters of s, in order
RECURSIVE Words(_, _)
Words(s, cur) ==
    IF Len(s) = 0 THEN (IF cur = "" THEN <<>> ELSE <<cur>>)
    ELSE IF Head(s) \in NonWord
         THEN (IF cur = "" THEN <<>> ELSE <<cur>>) \o Words(Tail(s), "")
         ELSE Words(Tail(s), cur \o Head(s))

AllDigits(w) == \A k \in 1..Len(w) : Char(w, k) \in Digits

\* re.findall(r'\b\d{5,}\b', text)
FindTasks(text) ==
    LET ws == Words(text, "")
    IN SelectSeq(ws, LAMBDA w : Len(w) >= 5 /\ AllDigits(w))

-----------------------------------------------------------------------------
(* Python dicts: a dict d with string keys is a function on its key set *)

HasKey(d, k) == k \in DOMAIN d
SetKey(d, k, v) == [x \in (DOMAIN d) \cup {k} |-> IF x = k THEN v ELSE d[x]]


\* an insertion-ordered dict: a sequence of [k, v] entries with distinct keys
ODictHas(d, k) == \E n \in 1..Len(d) : d[n].k = k
ODictIndex(d, k) == CHOOSE n \in 1..Len(d) : d[n].k = k
ODictGet(d, k) == d[ODictIndex(d, k)].v
\* d[k] = v: a new key goes last, an existing key keeps its place
ODictSet(d, k, v) ==
    IF ODictHas(d, k) THEN [d EXCEPT ![ODictIndex(d, k)] = [k |-> k, v |-> v]]
    ELSE Append(d, [k |-> k, v |-> v])

-----------------------------------------------------------------------------
(* old/generate_contracts.py *)

ALLOWED_ROOT_TYPES ==
    {"Spravochniki", "Dokumenty", "Konstanty", "ObshchieFormy", "Otchety",
     "Obrabotki", "RegistrySvedeniy", "RegistryNakopleniya",
     "PlanyVidovKharakteristik", "PlanyObmena", "BiznesProtsessy", "Zadachi"}

\* current_object = None
None == [none |-> TRUE]

\* last_typed_element = None; otherwise the reference is kept as the place of
\* the referenced dict inside current_object:
\*   [kind |-> "attr", idx]         data.attributes[idx]
\*   [kind |-> "col", ts, idx]      data.tabular_sections[ts].attributes[idx]
NoFocus == [kind |-> "none"]

\* len(line) - len(line.lstrip())
Indent(line) == Len(line) - Len(LStrip(line))

\* trimmed_line[1:].strip() of a dash line
LastElementLine(line) == Strip(From(Strip(line), 1))

\* mutant: the root-type check of is_valid_root is dropped
IsValidRootAnyType(parts) == Len(parts) = 2

IsValidRoot(parts) == Len(parts) = 2 /\ parts[1] \in ALLOWED_ROOT_TYPES

\* The optional keys 'comment' and 'tasks' of data and of an attribute or
\* column are fields that are always there: main never stores an empty comment
\* nor an empty task list, so "" and <<>> stand for a missing key.
NoComment == ""
NoTasks == <<>>

\* the dict main opens for a root marker
NewObject(last_element_line, parts) ==
    [name |-> last_element_line,
     type |-> parts[1],
     object_name |-> parts[2],
     data |-> [name |-> last_element_line,
               type |-> parts[1],
               attributes |-> <<>>,
               tabular_sections |-> <<>>,
               comment |-> NoComment,
               tasks |-> NoTasks]]

\* {"name": ..., "type": ""}
NewAttr(name) == [name |-> name, type |-> "", comment |-> NoComment, tasks |-> NoTasks]

ContractPath(obj) == obj.type \o "/" \o obj.object_name \o ".json"

\* save_contract: the file it (over)writes; nothing for None
SaveContract(obj, fs) ==
    IF obj = None THEN fs ELSE SetKey(fs, ContractPath(obj), obj.data)

\* the record of an effective save_contract call
SaveLog(obj, log) ==
    IF obj = None THEN log
    ELSE Append(log, [path |-> ContractPath(obj), data |-> obj.data])

\* clear_directory: rmtree and makedirs leave an empty directory
ClearDirectory(fs) == <<>>

\* the dict last_typed_element refers to
FocusElement(obj, f) ==
    IF f.kind = "attr" THEN obj.data.attributes[f.idx]
    ELSE ODictGet(obj.data.tabular_sections, f.ts).attributes[f.idx]

\* target_element[...] = ...: the target is the focus element, or data itself
UpdateTarget(obj, f, el) ==
    IF f.kind = "none" THEN [obj EXCEPT !.data = el]
    ELSE IF f.kind = "attr" THEN [obj EXCEPT !.data.attributes[f.idx] = el]
    ELSE LET sec == ODictGet(obj.data.tabular_sections, f.ts)
         IN [obj EXCEPT !.data.tabular_sections =
                ODictSet(@, f.ts, [sec EXCEPT !.attributes[f.idx] = el])]

TargetElement(obj, f) == IF f.kind = "none" THEN obj.data ELSE FocusElement(obj, f)

\* mutant: every task number is appended, known or not
AppendAll(list, tasks) == list \o tasks

\* for task in tasks: if task not in target['tasks']: append
RECURSIVE AppendUnique(_, _)
AppendUnique(list, tasks) ==
    IF Len(tasks) = 0 THEN list
    ELSE AppendUnique(
            IF \E n \in 1..Len(list) : list[n] = Head(tasks) THEN list
            ELSE Append(list, Head(tasks)),
            Tail(tasks))


\* The state of main's loop as one value:
\*   [i, cur (current_object), focus (last_typed_element), saved, files]

\* which branch of the loop body a line takes, given the open entity
LineKind(line, cur) ==
    LET trimmed_line == Strip(line)
    IN IF trimmed_line = "" THEN "blank"
       ELSE IF StartsWith(trimmed_line, "-")
            THEN IF IsValidRoot(Split(LastElementLine(line), ".")) THEN "root"
                 ELSE IF cur # None /\ StartsWith(LastElementLine(line), cur.name)
                      THEN "child"
                      ELSE "dash"
       ELSE IF cur # None /\ StartsWith(trimmed_line, "Kommentariy:") THEN "comment"
       ELSE IF cur # None /\ StartsWith(trimmed_line, "Tip:") THEN "type"
       ELSE "other"

\* a line the loop passes over: blank, unrecognized dash line, anything else
SkipStep(st) == [st EXCEPT !.i = @ + 1]

\* mutant: a root marker renames the open object instead of saving it and
\* starting a new one
RootStepReuse(st, line) ==
    LET last_element_line == LastElementLine(line)
        parts == Split(last_element_line, ".")
    IN IF st.cur = None
       THEN [st EXCEPT !.i = @ + 1, !.cur = NewObject(last_element_line, parts)]
       ELSE [st EXCEPT !.i = @ + 1,
                       !.cur.name = last_element_line,
                       !.cur.type = parts[1],
                       !.cur.object_name = parts[2],
                       !.cur.data.name = last_element_line,
                       !.cur.data.type = parts[1],
                       !.focus = NoFocus]

\* mutant: a root marker leaves last_typed_element as it was
RootStepKeepFocus(st, line) ==
    LET last_element_line == LastElementLine(line)
        parts == Split(last_element_line, ".")
    IN [i |-> st.i + 1,
        cur |-> NewObject(last_element_line, parts),
        focus |-> st.focus,
        saved |-> SaveLog(st.cur, st.saved),
        files |-> SaveContract(st.cur, st.files)]

\* is_valid_root: save the previous object, start a new one, drop the focus
RootStep(st, line) ==
    LET last_element_line == LastElementLine(line)
        parts == Split(last_element_line, ".")
    IN [i |-> st.i + 1,
        cur |-> NewObject(last_element_line, parts),
        focus |-> NoFocus,
        saved |-> SaveLog(st.cur, st.saved),
        files |-> SaveContract(st.cur, st.files)]

\* last_element_line.replace(current_object['name'] + '.', '').split('.')
ChildParts(line, cur) == Split(Replace(LastElementLine(line), cur.name \o ".", ""), ".")

ChildShape(child_parts, cur) ==
    IF Len(child_parts) = 2 /\ child_parts[1] = "Rekvizity" THEN "attribute"
    ELSE IF Len(child_parts) = 2 /\ child_parts[1] = "TablichnyeChasti" THEN "section"
    ELSE IF /\ Len(child_parts) = 4
            /\ child_parts[1] = "TablichnyeChasti"
            /\ child_parts[3] = "Rekvizity"
         THEN IF ODictHas(cur.data.tabular_sections, child_parts[2])
              THEN "column" ELSE "skipped"
    ELSE "skipped"

\* mutant: a section line for a registered section keeps the section
ChildStepKeepSection(st, line) ==
    LET child_parts == ChildParts(line, st.cur)
        shape == ChildShape(child_parts, st.cur)
        attr == NewAttr(child_parts[Len(child_parts)])
    IN IF shape = "attribute"
       THEN [st EXCEPT !.i = @ + 1,
                       !.cur.data.attributes = Append(@, attr),
                       !.focus = [kind |-> "attr",
                                  idx |-> Len(st.cur.data.attributes) + 1]]
       ELSE IF shape = "section"
       THEN IF ODictHas(st.cur.data.tabular_sections, child_parts[2])
            THEN [st EXCEPT !.i = @ + 1, !.focus = NoFocus]
            ELSE [st EXCEPT !.i = @ + 1,
                            !.cur.data.tabular_sections =
                                ODictSet(@, child_parts[2],
                                         [name |-> child_parts[2],
                                          attributes |-> <<>>]),
                            !.focus = NoFocus]
       ELSE IF shape = "column"
       THEN LET sec == ODictGet(st.cur.data.tabular_sections, child_parts[2])
            IN [st EXCEPT !.i = @ + 1,
                          !.cur.data.tabular_sections =
                              ODictSet(@, child_parts[2],
                                       [sec EXCEPT !.attributes = Append(@, attr)]),
                          !.focus = [kind |-> "col", ts |-> child_parts[2],
                                     idx |-> Len(sec.attributes) + 1]]
       ELSE SkipStep(st)

\* a child line of the open entity: attribute, tabular section or column
ChildStep(st, line) ==
    LET child_parts == ChildParts(line, st.cur)
        shape == ChildShape(child_parts, st.cur)
        attr == NewAttr(child_parts[Len(child_parts)])
    IN IF shape = "attribute"
       THEN [st EXCEPT !.i = @ + 1,
                       !.cur.data.attributes = Append(@, attr),
                       !.focus = [kind |-> "attr",
                                  idx |-> Len(st.cur.data.attributes) + 1]]
       ELSE IF shape = "section"
       THEN [st EXCEPT !.i = @ + 1,
                       !.cur.data.tabular_sections =
                           ODictSet(@, child_parts[2],
                                    [name |-> child_parts[2], attributes |-> <<>>]),
                       !.focus = NoFocus]
       ELSE IF shape = "column"
       THEN LET sec == ODictGet(st.cur.data.tabular_sections, child_parts[2])
            IN [st EXCEPT !.i = @ + 1,
                          !.cur.data.tabular_sections =
                              ODictSet(@, child_parts[2],
                                       [sec EXCEPT !.attributes = Append(@, attr)]),
                          !.focus = [kind |-> "col", ts |-> child_parts[2],
                                     idx |-> Len(sec.attributes) + 1]]
       ELSE SkipStep(st)

\* trimmed_line.split(":", 1)[1].strip().strip('"')
CommentText(line) ==
    LET trimmed_line == Strip(line)
    IN StripSet(Strip(From(trimmed_line, Find(trimmed_line, ":"))), {"\""})

\* mutant: the comment always goes to the entity, whatever the focus
CommentStepOnEntity(st, line) ==
    LET comment_text == CommentText(line)
        target == st.cur.data
        tasks == FindTasks(comment_text)
        withComment == [target EXCEPT !.comment = comment_text]
        withTasks == IF Len(tasks) > 0
                     THEN [withComment EXCEPT !.tasks = AppendUnique(@, tasks)]
                     ELSE withComment
    IN IF comment_text = "" THEN SkipStep(st)
       ELSE [st EXCEPT !.i = @ + 1, !.cur.data = withTasks]

\* the comment and the task numbers go to the focus element, or to the entity
CommentStep(st, line) ==
    LET comment_text == CommentText(line)
        target == TargetElement(st.cur, st.focus)
        tasks == FindTasks(comment_text)
        withComment == [target EXCEPT !.comment = comment_text]
        withTasks == IF Len(tasks) > 0
                     THEN [withComment EXCEPT !.tasks = AppendUnique(@, tasks)]
                     ELSE withComment
    IN IF comment_text = "" THEN SkipStep(st)
       ELSE [st EXCEPT !.i = @ + 1,
                       !.cur = UpdateTarget(st.cur, st.focus, withTasks)]

\* mutant: the indentation test of the scan is >= instead of >
RECURSIVE TypePartsGeq(_, _, _)
TypePartsGeq(ls, j, type_line_indent) ==
    IF j <= Len(ls) /\ Strip(ls[j]) # "" /\ Indent(ls[j]) >= type_line_indent
    THEN <<StripSet(Strip(ls[j]), {"\"", ","})>> \o TypePartsGeq(ls, j + 1, type_line_indent)
    ELSE <<>>

\* the while loop of the "Tip:" branch: the stripped continuation lines from
\* lines[j] on that are non-blank and indented deeper than the type line
RECURSIVE TypeParts(_, _, _)
TypeParts(ls, j, type_line_indent) ==
    IF j <= Len(ls) /\ Strip(ls[j]) # "" /\ Indent(ls[j]) > type_line_indent
    THEN <<StripSet(Strip(ls[j]), {"\"", ","})>> \o TypeParts(ls, j + 1, type_line_indent)
    ELSE <<>>

\* mutant: the scan of the type block consumes the lines it collected
TypeStepConsuming(st, ls) ==
    LET type_parts == TypeParts(ls, st.i + 1, Indent(ls[st.i]))
    IN IF Len(type_parts) > 0 /\ st.focus # NoFocus
       THEN [st EXCEPT !.i = @ + 1 + Len(type_parts),
                       !.cur = UpdateTarget(st.cur, st.focus,
                                   [FocusElement(st.cur, st.focus)
                                       EXCEPT !.type = Join(type_parts, ", ")])]
       ELSE [st EXCEPT !.i = @ + 1 + Len(type_parts)]

\* a "Tip:" line: the composite type of the focus element
TypeStep(st, ls) ==
    LET type_parts == TypeParts(ls, st.i + 1, Indent(ls[st.i]))
    IN IF Len(type_parts) > 0 /\ st.focus # NoFocus
       THEN [st EXCEPT !.i = @ + 1,
                       !.cur = UpdateTarget(st.cur, st.focus,
                                   [FocusElement(st.cur, st.focus)
                                       EXCEPT !.type = Join(type_parts, ", ")])]
       ELSE SkipStep(st)

\* one pass of the loop body, for the line at st.i
LoopBody(st, ls) ==
    LET kind == LineKind(ls[st.i], st.cur)
    IN CASE kind = "root" -> RootStep(st, ls[st.i])
         [] kind = "child" -> ChildStep(st, ls[st.i])
         [] kind = "comment" -> CommentStep(st, ls[st.i])
         [] kind = "type" -> TypeStep(st, ls)
         [] OTHER -> SkipStep(st)

\* mutant: the save after the loop is missing
FinalSaveMissing(st) == st

\* after the loop: save the last accumulated contract
FinalSave(st) ==
    [st EXCEPT !.saved = SaveLog(st.cur, st.saved),
               !.files = SaveContract(st.cur, st.files)]

\* the state main starts its loop in, on the output directory fs
MainStart(fs) ==
    [i |-> 1, cur |-> None, focus |-> NoFocus, saved |-> <<>>,
     files |-> ClearDirectory(fs)]

RECURSIVE RunLoop(_, _)
RunLoop(st, ls) == IF st.i > Len(ls) THEN st ELSE RunLoop(LoopBody(st, ls), ls)

\* main(report_path, output_dir) as a whole; an empty file returns after the
\* directory was cleared
Main(ls, fs) ==
    IF Len(ls) = 0 THEN MainStart(fs) ELSE FinalSave(RunLoop(MainStart(fs), ls))


-----------------------------------------------------------------------------
(* The run of main, one action per pass of its loop *)

\* the longest report of ReportSpec, and the longest tail of TypeSpec
MaxLines == 4
MaxTail == 4

\* ReportSpec: a report is a dash line followed by up to MaxLines - 1 of these
\* lines (before the first root marker every line is passed over, so the first
\* line is taken among the dash lines that can change that)
ReportHeads == {"- Spravochniki.A", "- Dokumenty.B", "- Foo.Bar"}

ReportLines ==
    ReportHeads \cup
    {"  - Spravochniki.A.Rekvizity.X",
     "  - Spravochniki.A.TablichnyeChasti.T",
     "  - Spravochniki.A.TablichnyeChasti.T.Rekvizity.X",
     "  - Dokumenty.B.Rekvizity.X",
     "    Tip:",
     "    Kommentariy: \"task 123456\"",
     ""}

\* TypeSpec: an entity and an attribute, then up to MaxTail lines around a
\* type block
TypePrefix ==
    <<"- Foo.Bar", "- Spravochniki.A", "  - Spravochniki.A.Rekvizity.X">>

TypeLines ==
    {"    Tip:",
     "      \"Stroka\",",
     "      \"Chislo\"",
     "      Tip:",
     "      - Spravochniki.A.Rekvizity.Y",
     "    Kommentariy: \"x\"",
     "      Kommentariy: \"y\"",
     ""}

SeqsUpTo(S, n) == UNION {[1..m -> S] : m \in 0..n}

\* what an earlier run left in the output directory
StaleFiles ==
    SetKey(<<>>, "Spravochniki/Old.json",
           NewObject("Spravochniki.Old", <<"Spravochniki", "Old">>).data)

St ==
    [i |-> i, cur |-> current_object, focus |-> last_typed_element,
     saved |-> saved, files |-> files]

Becomes(st) ==
    /\ i' = st.i
    /\ current_object' = st.cur
    /\ last_typed_element' = st.focus
    /\ saved' = st.saved
    /\ files' = st.files

\* the form generator does not run
FormIdle ==
    /\ conf = <<>>
    /\ doc = <<>>
    /\ script = <<>>
    /\ walked = 0
    /\ form = <<>>
    /\ module_data = <<>>
    /\ contract = <<>>

InitMain(reports) ==
    /\ lines \in reports
    /\ i = 1
    /\ current_object = None
    /\ last_typed_element = NoFocus
    /\ saved = <<>>
    /\ files = StaleFiles
    /\ pc = "start"
    /\ FormIdle
    /\ objects = <<>>
    /\ run_dir = ""
    /\ RunIdle

\* clear_directory, read the report; "if not lines: return"
StartMain ==
    /\ pc = "start"
    /\ Becomes(MainStart(files))
    /\ pc' = IF Len(lines) = 0 THEN "done" ELSE "loop"
    /\ UNCHANGED <<lines, formVars, metaVars, runVars>>

InLoop == pc = "loop" /\ i <= Len(lines)

Visit(kind, st) ==
    /\ InLoop
    /\ LineKind(lines[i], current_object) = kind
    /\ Becomes(st)
    /\ UNCHANGED <<lines, pc, formVars, metaVars, runVars>>

BlankLine == Visit("blank", SkipStep(St))
RootMarker == Visit("root", RootStep(St, lines[i]))
ChildLine == Visit("child", ChildStep(St, lines[i]))
UnknownDash == Visit("dash", SkipStep(St))
CommentField == Visit("comment", CommentStep(St, lines[i]))
TypeField == Visit("type", TypeStep(St, lines))
OtherLine == Visit("other", SkipStep(St))

\* the loop is over: save_contract(current_object, output_dir)
EndOfInput ==
    /\ pc = "loop"
    /\ i > Len(lines)
    /\ Becomes(FinalSave(St))
    /\ pc' = "done"
    /\ UNCHANGED <<lines, formVars, metaVars, runVars>>

MainNext ==
    \/ StartMain
    \/ BlankLine
    \/ RootMarker
    \/ ChildLine
    \/ UnknownDash
    \/ CommentField
    \/ TypeField
    \/ OtherLine
    \/ EndOfInput

ReportInit ==
    InitMain({<<>>} \cup {<<h>> \o t : h \in ReportHeads,
                                      t \in SeqsUpTo(ReportLines, MaxLines - 1)})
ReportSpec == ReportInit /\ [][MainNext]_vars

TypeInit == InitMain({TypePrefix \o t : t \in SeqsUpTo(TypeLines, MaxTail)})
TypeSpec == TypeInit /\ [][MainNext]_vars


-----------------------------------------------------------------------------
(* Properties of the report tree builder *)

\* the indices of the recognized root-object markers of a report, in order
MarkerIdx(ls) ==
    SelectSeq([k \in 1..Len(ls) |-> k], LAMBDA k : LineKind(ls[k], None) = "root")

\* the names a contract holds: its attributes, its sections and their columns
Names(elements) == [n \in 1..Len(elements) |-> elements[n].name]

Skeleton(data) ==
    [attributes |-> Names(data.attributes),
     sections |-> [n \in 1..Len(data.tabular_sections) |->
                     [name |-> data.tabular_sections[n].v.name,
                      columns |-> Names(data.tabular_sections[n].v.attributes)]]]

SkeletonSize(data) ==
    LET sk == Skeleton(data)
    IN Len(sk.attributes) + Len(sk.sections)

\* C2: entity isolation.  For two consecutive root markers A then B, the
\* contract saved for A holds exactly the attributes, sections and columns it
\* would hold if the report ended right before B's marker: nothing a line
\* after B's marker creates is stored in A's contract.
C2_EntityIsolation ==
    pc = "done" =>
        LET ms == MarkerIdx(lines)
        IN \A n \in 1..(Len(ms) - 1) :
              /\ n <= Len(saved)
              /\ Skeleton(saved[n].data) =
                 Skeleton(Main(SubSeq(lines, 1, ms[n + 1] - 1), StaleFiles).saved[n].data)

\* a finished parse of A, B with an element created in each of them
C2_Witness ==
    /\ pc = "done"
    /\ Len(saved) = 2
    /\ saved[1].path # saved[2].path
    /\ SkeletonSize(saved[1].data) > 0
    /\ SkeletonSize(saved[2].data) > 0

Max(a, b) == IF a >= b THEN a ELSE b

\* the path save_contract writes for the root marker line
MarkerPath(line) ==
    LET parts == Split(LastElementLine(line), ".")
    IN parts[1] \o "/" \o parts[2] \o ".json"

\* C3: exactly-once persistence.  Every recognized root marker is saved once,
\* in marker order: while the loop runs, all markers visited so far but the
\* last one are saved (the open entity is not yet); when main is done, all of
\* them are; and nothing is written when there was no marker.
C3_ExactlyOnce ==
    LET ms == MarkerIdx(lines)
        visited == Cardinality({n \in 1..Len(ms) : ms[n] < i})
    IN /\ pc = "start" => saved = <<>>
       /\ pc = "loop" => Len(saved) = Max(0, visited - 1)
       /\ pc = "done" => Len(saved) = Len(ms)
       /\ \A n \in 1..Len(saved) :
             /\ n <= Len(ms)
             /\ saved[n].path = MarkerPath(lines[ms[n]])
             /\ saved[n].data.name = LastElementLine(lines[ms[n]])
       /\ (pc = "done" /\ Len(ms) = 0) => files = <<>>

\* a finished parse of two markers, the first saved with an element in it
C3_Witness ==
    /\ pc = "done"
    /\ Len(MarkerIdx(lines)) = 2
    /\ Len(saved) = 2
    /\ SkeletonSize(saved[1].data) > 0

\* the type line at i is followed by exactly n non-blank lines of strictly
\* greater indentation and then by a line of indentation less than or equal
\* to its own
TypeBlock(n) ==
    /\ i + n + 1 <= Len(lines)
    /\ \A k \in 1..n :
          Strip(lines[i + k]) # "" /\ Indent(lines[i + k]) > Indent(lines[i])
    /\ Indent(lines[i + n + 1]) <= Indent(lines[i])

\* the n stripped elements after the type line, joined with ", "
BlockType(n) ==
    Join([k \in 1..n |-> StripSet(Strip(lines[i + k]), {"\"", ","})], ", ")

\* C4: composite-type lookahead.  A pass over a "Tip:" line with a focus
\* element and a block of N continuation lines leaves the focus element with
\* the N elements joined by ", ", and with its previous type when N = 0.
C4_CompositeType ==
    [][\A n \in 0..Len(lines) :
          (/\ InLoop
           /\ LineKind(lines[i], current_object) = "type"
           /\ last_typed_element # NoFocus
           /\ TypeBlock(n))
          => /\ last_typed_element' = last_typed_element
             /\ FocusElement(current_object', last_typed_element).type =
                   IF n = 0 THEN FocusElement(current_object, last_typed_element).type
                   ELSE BlockType(n)]_vars

\* an attribute whose type has two elements
C4_Witness ==
    /\ current_object # None
    /\ \E n \in 1..Len(current_object.data.attributes) :
          current_object.data.attributes[n].type = "Stroka, Chislo"

\* a type line with an empty block, met while the focus has a type already
C4_WitnessEmpty ==
    /\ InLoop
    /\ LineKind(lines[i], current_object) = "type"
    /\ last_typed_element # NoFocus
    /\ TypeBlock(0)
    /\ FocusElement(current_object, last_typed_element).type # ""

\* a dash-prefixed line whose first dotted segment is no allowed root type
UnknownRoot(line) ==
    /\ StartsWith(Strip(line), "-")
    /\ Split(LastElementLine(line), ".")[1] \notin ALLOWED_ROOT_TYPES

\* the number of lines under the dash line k: up to the next dash line
RECURSIVE FieldLines(_, _)
FieldLines(ls, k) ==
    IF k + 1 <= Len(ls) /\ ~StartsWith(Strip(ls[k + 1]), "-")
    THEN 1 + FieldLines(ls, k + 1) ELSE 0

\* the report without the dash line k and the field lines under it
Without(ls, k) ==
    SubSeq(ls, 1, k - 1) \o SubSeq(ls, k + 1 + FieldLines(ls, k), Len(ls))

LastN(seq, n) == SubSeq(seq, Len(seq) - n + 1, Len(seq))

\* C5: unknown root type.  A line like "- Foo.Bar" opens no entity and no
\* contract is written for it, and the contracts of the entities whose
\* markers follow it are those of the report without that line and the field
\* lines under it.
C5_UnknownRoot ==
    pc = "done" =>
        \A k \in 1..Len(lines) :
            UnknownRoot(lines[k]) =>
                LET after == Cardinality({m \in k..Len(lines) :
                                            LineKind(lines[m], None) = "root"})
                    other == Main(Without(lines, k), StaleFiles).saved
                IN /\ \A n \in 1..Len(saved) :
                         saved[n].data.name # LastElementLine(lines[k])
                   /\ ContractPath(NewObject(LastElementLine(lines[k]),
                          Split(LastElementLine(lines[k]), ".") \o <<"">>))
                          \notin DOMAIN files
                   /\ after <= Len(saved)
                   /\ after <= Len(other)
                   /\ LastN(saved, after) = LastN(other, after)

\* "- Foo.Bar" with a field line under it, then an entity with an element
C5_Witness ==
    /\ pc = "done"
    /\ \E k \in 1..Len(lines) :
          /\ UnknownRoot(lines[k])
          /\ FieldLines(lines, k) > 0
          /\ Strip(lines[k + 1]) # ""
          /\ \E m \in (k + 1)..Len(lines) : LineKind(lines[m], None) = "root"
    /\ Len(saved) > 0
    /\ SkeletonSize(saved[Len(saved)].data) > 0

\* C10: name uniqueness.  Within the open entity no two attributes have the
\* same name and within one tabular section no two columns have the same name.
Distinct(names) ==
    \A a, b \in 1..Len(names) : names[a] = names[b] => a = b

C10_UniqueNames ==
    current_object # None =>
        LET sk == Skeleton(current_object.data)
        IN /\ Distinct(sk.attributes)
           /\ \A n \in 1..Len(sk.sections) : Distinct(sk.sections[n].columns)

-----------------------------------------------------------------------------
(* old/form_contracts_generator.py: parse_form_xml                         *)
(*                                                                         *)
(* Form.xml is the sequence of its elements in document order.  An element *)
(* is [depth, tag, attrib]: depth is its nesting depth (the root has 0),   *)
(* attrib its XML attributes.  Transliterated literals:                    *)
(*   Tip = Тип   Obyekt = Объект   Kolonka = Колонка                       *)
(*   TablichnayaChast = ТабличнаяЧасть   Tablitsa = Таблица                *)
(*   iz elementa upravleniya = из элемента управления                     *)

Uppers == "ABCDEFGHIJKLMNOPQRSTUVWXYZ"
Lowers == "abcdefghijklmnopqrstuvwxyz"

\* str.lower
RECURSIVE Lower(_)
Lower(s) ==
    IF Len(s) = 0 THEN ""
    ELSE LET c == Char(s, 1)
             k == Find(Uppers, c)
         IN (IF k = 0 THEN c ELSE Char(Lowers, k)) \o Lower(Tail(s))

Undefined == "Neopredeleno"

control_keywords ==
    <<"Button", "Field", "Table", "Group", "AutoCommandBar", "Panel", "Tab",
      "Label", "Input", "ComboBox", "CheckBox", "RadioButton", "Picture",
      "Hyperlink", "List", "Tree", "Grid", "Calendar", "Chart", "Splitter",
      "Page", "CommandBar", "TextBox", "TextEdit", "SpinEdit", "DateEdit",
      "TimeEdit", "PasswordEdit", "NumberEdit", "DocumentEdit",
      "OrganizationEdit", "CounterpartyEdit", "UserEdit", "FileEdit",
      "FolderEdit", "ReferenceEdit", "ValueEdit", "FormItem">>

\* element.get(key), with "" where Python has None: the source only tests
\* the value for truth
Get(element, key) ==
    IF key \in DOMAIN element.attrib THEN element.attrib[key] ELSE ""

\* element.get(keys[1]) or element.get(keys[2]) or ... or default
RECURSIVE FirstOf(_, _, _)
FirstOf(element, keys, default) ==
    IF Len(keys) = 0 THEN default
    ELSE IF Get(element, Head(keys)) # "" THEN Get(element, Head(keys))
    ELSE FirstOf(element, Tail(keys), default)

TypeKeys == <<"Type", "Tip", "DataType", "datatype", "type">>
ObjectKeys == <<"Object", "Obyekt", "MainObject", "MainObjectType">>

extract_type(element) == FirstOf(element, TypeKeys, Undefined)
extract_object_type(element) == FirstOf(element, ObjectKeys, Undefined)

\* element.get('name') or element.get('Name')
NameOf(element) == FirstOf(element, <<"name", "Name">>, "")

\* "for child in element": the positions of the children of element k
IsChild(d, k, j) ==
    /\ j > k
    /\ d[j].depth = d[k].depth + 1
    /\ \A m \in (k + 1)..j : d[m].depth > d[k].depth

ChildrenOf(d, k) ==
    SelectSeq([n \in 1..Len(d) |-> n], LAMBDA j : IsChild(d, k, j))

IsColumn(child) ==
    /\ EndsWith(child.tag, "Column") \/ EndsWith(child.tag, "Kolonka")
    /\ NameOf(child) # ""

extract_tabular_section_info(d, k) ==
    LET cols == SelectSeq(ChildrenOf(d, k), LAMBDA j : IsColumn(d[j]))
    IN [name |-> NameOf(d[k]),
        type |-> extract_type(d[k]),
        columns |-> [n \in 1..Len(cols) |->
                        [name |-> NameOf(d[cols[n]]),
                         type |-> extract_type(d[cols[n]])]]]

\* a.lower() in b.lower() or b.lower() in a.lower()
Overlaps(a, b) ==
    Contains(Lower(b), Lower(a)) \/ Contains(Lower(a), Lower(b))

\* "for key, value in dict.items(): if <overlap>: ...; break": the position
\* of the first entry of dict whose key overlaps name, 0 when there is none
RECURSIVE FirstOverlap(_, _, _)
FirstOverlap(dict, name, n) ==
    IF n > Len(dict) THEN 0
    ELSE IF Overlaps(dict[n].k, name) THEN n
    ELSE FirstOverlap(dict, name, n + 1)

\* the locals of parse_form_xml before walk(root)
NewForm ==
    [form_data |-> [attributes |-> <<>>, controls |-> <<>>, commands |-> <<>>,
                    object_type |-> Undefined, tabular_sections |-> <<>>],
     attributes_dict |-> <<>>,
     tabular_sections_dict |-> <<>>]

\* walk, lines 163-166
WalkObjectType(f, element) ==
    IF /\ f.form_data.object_type = Undefined
       /\ extract_object_type(element) # Undefined
    THEN [f EXCEPT !.form_data.object_type = extract_object_type(element)]
    ELSE f

\* walk, lines 169-177
WalkAttribute(f, element) ==
    LET name == NameOf(element)
        attr_type == extract_type(element)
    IN IF EndsWith(element.tag, "Attribute") /\ name # ""
       THEN [f EXCEPT
               !.attributes_dict = ODictSet(@, name, attr_type),
               !.form_data.attributes =
                   Append(@, [name |-> name, type |-> attr_type])]
       ELSE f

\* walk, lines 180-184
WalkTabularSection(f, d, k) ==
    LET tab_info == extract_tabular_section_info(d, k)
    IN IF /\ \/ EndsWith(d[k].tag, "TabularSection")
             \/ EndsWith(d[k].tag, "TablichnayaChast")
          /\ tab_info.name # ""
       THEN [f EXCEPT
               !.tabular_sections_dict = ODictSet(@, tab_info.name, tab_info),
               !.form_data.tabular_sections = Append(@, tab_info)]
       ELSE f

\* walk, lines 187-193
WalkCommand(f, element) ==
    LET name == FirstOf(element, <<"name", "Name", "CommandName">>, "")
    IN IF EndsWith(element.tag, "Command") /\ name # ""
       THEN [f EXCEPT !.form_data.commands =
                Append(@, [name |-> name, action |-> Undefined])]
       ELSE f

\* "for kw in control_keywords: if kw in tag: ...; break": the position of
\* the first keyword the tag contains, 0 when it contains none
RECURSIVE FirstKeyword(_, _)
FirstKeyword(tag, n) ==
    IF n > Len(control_keywords) THEN 0
    ELSE IF Contains(tag, control_keywords[n]) THEN n
    ELSE FirstKeyword(tag, n + 1)

IsControl(element) ==
    FirstKeyword(element.tag, 1) # 0 /\ NameOf(element) # ""

TableKeywords == {"Table", "Tree", "Grid"}
FieldKeywords ==
    {"Field", "Input", "TextBox", "TextEdit", "NumberEdit", "DateEdit"}

\* walk, lines 209-228: ctrl_type
ControlType(f, element, kw) ==
    LET name == NameOf(element)
        t == FirstOverlap(f.tabular_sections_dict, name, 1)
        a == FirstOverlap(f.attributes_dict, name, 1)
    IN IF kw \in TableKeywords
       THEN IF t # 0
            THEN "Tablitsa(" \o f.tabular_sections_dict[t].v.type \o ")"
            ELSE extract_type(element)
       ELSE IF kw \in FieldKeywords
       THEN IF ODictHas(f.attributes_dict, name)
            THEN ODictGet(f.attributes_dict, name)
            ELSE IF a # 0 THEN f.attributes_dict[a].v
            ELSE extract_type(element)
       ELSE extract_type(element)

\* walk, lines 196-234
WalkControl(f, element) ==
    LET name == NameOf(element)
        kw == control_keywords[FirstKeyword(element.tag, 1)]
        cmd_name == Get(element, "CommandName")
        ctrl_type == ControlType(f, element, kw)
        g == IF cmd_name # ""
             THEN [f EXCEPT !.form_data.commands =
                     Append(@, [name |-> cmd_name,
                                action |-> cmd_name \o " (iz elementa upravleniya)"])]
             ELSE f
    IN IF IsControl(element)
       THEN [g EXCEPT !.form_data.controls =
               Append(@, [name |-> name,
                          type |-> IF ctrl_type # Undefined
                                   THEN ctrl_type ELSE kw])]
       ELSE f

\* walk(element) without the recursion into the children, lines 160-234
Walk(f, d, k) ==
    WalkControl(
        WalkCommand(
            WalkTabularSection(
                WalkAttribute(WalkObjectType(f, d[k]), d[k]), d, k),
            d[k]),
        d[k])

InKeywords(t) == \E n \in 1..Len(control_keywords) : control_keywords[n] = t

\* the body of the loop of lines 243-253
Resolve(f, ctrl) ==
    LET a == FirstOverlap(f.attributes_dict, ctrl.name, 1)
    IN IF InKeywords(ctrl.type) \/ ctrl.type = Undefined
       THEN IF /\ ODictHas(f.attributes_dict, ctrl.name)
               /\ ODictGet(f.attributes_dict, ctrl.name) # ""
            THEN [ctrl EXCEPT !.type = ODictGet(f.attributes_dict, ctrl.name)]
            ELSE IF a # 0
            THEN [ctrl EXCEPT !.type = f.attributes_dict[a].v]
            ELSE ctrl
       ELSE ctrl

\* lines 243-253
PostPass(f) ==
    [f EXCEPT !.form_data.controls =
        [n \in 1..Len(@) |-> Resolve(f, @[n])]]

\* walk(root): the elements in document order, from element k on
RECURSIVE WalkFrom(_, _, _)
WalkFrom(f, d, k) ==
    IF k > Len(d) THEN f ELSE WalkFrom(Walk(f, d, k), d, k + 1)

\* parse_form_xml of a file that ET.parse can read; ET.ParseError gives the
\* empty form data of line 263 (a file it cannot read raises OSError instead,
\* see ReadError and MarkupRaises)
ParsedForm(file) ==
    IF file.wellformed
    THEN PostPass(WalkFrom(NewForm, file.elements, 1))
    ELSE NewForm

parse_form_xml(file) == ParsedForm(file).form_data

-----------------------------------------------------------------------------
(* The run of parse_form_xml, one action per element walk visits *)

\* the most elements below the root of a form of FormSpec
MaxNodes == 3

\* where the form of FormSpec lies in the configuration
FormPath == <<"conf", "Catalogs", "A", "Forms", "F", "Ext", "Form.xml">>

FormRoot ==
    [depth |-> 0, tag |-> "Form", attrib |-> [Object |-> "SpravochnikObyekt.A"]]

\* FormSpec: the root, then up to MaxNodes of these elements
FormNodes ==
    {[depth |-> 1, tag |-> "Attribute",
      attrib |-> [name |-> "Nom", Type |-> "Chislo"]],
     [depth |-> 1, tag |-> "Attribute",
      attrib |-> [name |-> "Nomer", Type |-> "Stroka"]],
     [depth |-> 1, tag |-> "Attribute",
      attrib |-> [Name |-> "Nom", MainObject |-> "DokumentObyekt.B"]],
     [depth |-> 1, tag |-> "InputField", attrib |-> [name |-> "Nom"]],
     [depth |-> 1, tag |-> "InputField",
      attrib |-> [name |-> "Nom", Type |-> "Data"]],
     [depth |-> 1, tag |-> "Table", attrib |-> [name |-> "Nom"]],
     [depth |-> 1, tag |-> "TabularSection",
      attrib |-> [name |-> "Nomer", Type |-> "Tovary"]],
     [depth |-> 2, tag |-> "Column",
      attrib |-> [name |-> "K", Type |-> "Chislo"]],
     [depth |-> 1, tag |-> "Button",
      attrib |-> [name |-> "Cmd", CommandName |-> "Cmd"]],
     [depth |-> 1, tag |-> "Command", attrib |-> [name |-> "Cmd"]]}

\* the nesting depths are those of a tree in document order
IsTree(d) ==
    /\ Len(d) > 0 => d[1].depth = 0
    /\ \A k \in 2..Len(d) : d[k].depth >= 1 /\ d[k].depth <= d[k - 1].depth + 1

\* a form file is [path, readable, wellformed, elements]: readable is whether
\* ET.parse can open and read what rglob("Form.xml") found (an entry without
\* read permission, or a directory of that name, is not), wellformed whether
\* the text it reads is well-formed XML
FormFiles(nodes, max) ==
    {[path |-> FormPath, readable |-> FALSE, wellformed |-> FALSE,
      elements |-> <<>>],
     [path |-> FormPath, readable |-> TRUE, wellformed |-> FALSE,
      elements |-> <<>>]} \cup
    {[path |-> FormPath, readable |-> TRUE, wellformed |-> TRUE,
      elements |-> <<FormRoot>> \o t] :
        t \in {u \in SeqsUpTo(nodes, max) : IsTree(<<FormRoot>> \o u)}}

\* nothing but parse_form_xml runs
FormOnly ==
    /\ lines = <<>>
    /\ i = 0
    /\ current_object = None
    /\ last_typed_element = NoFocus
    /\ saved = <<>>
    /\ files = <<>>
    /\ conf = <<>>
    /\ script = <<>>
    /\ module_data = <<>>
    /\ contract = <<>>
    /\ objects = <<>>
    /\ run_dir = ""
    /\ RunIdle

FormInit ==
    /\ doc \in FormFiles(FormNodes, MaxNodes)
    /\ walked = 0
    /\ form = NewForm
    /\ pc = "parse"
    /\ FormOnly

FormFrame ==
    UNCHANGED <<mainVars, files, conf, doc, script, module_data, contract, metaVars, runVars>>

\* ET.parse succeeds, lines 104-120
ParseTree ==
    /\ pc = "parse"
    /\ doc.readable
    /\ doc.wellformed
    /\ pc' = "walk"
    /\ UNCHANGED <<walked, form>>
    /\ FormFrame

\* ET.parse raises ParseError, lines 261-263
ParseError ==
    /\ pc = "parse"
    /\ doc.readable
    /\ ~doc.wellformed
    /\ form' = NewForm
    /\ pc' = "parsed"
    /\ UNCHANGED walked
    /\ FormFrame

\* ET.parse raises OSError (line 104): the handler of line 261 is for
\* ET.ParseError only, so the exception leaves parse_form_xml
ReadError ==
    /\ pc = "parse"
    /\ ~doc.readable
    /\ pc' = "raised"
    /\ UNCHANGED <<walked, form>>
    /\ FormFrame

\* walk visits the next element in document order
WalkElement ==
    /\ pc = "walk"
    /\ walked < Len(doc.elements)
    /\ form' = Walk(form, doc.elements, walked + 1)
    /\ walked' = walked + 1
    /\ UNCHANGED pc
    /\ FormFrame

\* the loop after the walk, lines 243-253, and the return
ResolveControls ==
    /\ pc = "walk"
    /\ walked = Len(doc.elements)
    /\ form' = PostPass(form)
    /\ pc' = "parsed"
    /\ UNCHANGED walked
    /\ FormFrame

FormNext == ParseTree \/ ParseError \/ ReadError \/ WalkElement \/ ResolveControls

FormSpec == FormInit /\ [][FormNext]_vars

-----------------------------------------------------------------------------
(* old/form_contracts_generator.py: parse_bsl_module                       *)
(*                                                                         *)
(* Module.bsl is its text.  The regular expressions of the source are      *)
(* matched position by position (1-based), with the backtracking that      *)
(* re.findall / re.search do.  Transliterated literals:                    *)
(*   Forma. = Форма.   Novyy = Новый   Protsedura = Процедура              *)
(*   Funktsiya = Функция   &NaKliente = &НаКлиенте  &NaServere = &НаСервере *)
(*   (kontekst ne opredelen) = (контекст не определен)                     *)
(* and the names of the value patterns as in ValuePatterns below.          *)

\* \s*: the first position at or after k that holds no whitespace
RECURSIVE SkipWs(_, _)
SkipWs(s, k) ==
    IF k <= Len(s) /\ Char(s, k) \in Whitespace THEN SkipWs(s, k + 1) ELSE k

\* \w*: the first position at or after k that holds no word character
RECURSIVE WordEnd(_, _)
WordEnd(s, k) ==
    IF k <= Len(s) /\ Char(s, k) \notin NonWord THEN WordEnd(s, k + 1) ELSE k

\* [^stop]*: the first position at or after k that holds a character of stop
RECURSIVE RunEnd(_, _, _)
RunEnd(s, k, stop) ==
    IF k <= Len(s) /\ Char(s, k) \notin stop THEN RunEnd(s, k + 1, stop) ELSE k

\* \s*([^stop]+) from position k: \s* is greedy and gives characters back
\* until the group is not empty; 0 when the group cannot start
GroupStart(s, k, stop) ==
    LET d == SkipWs(s, k)
        qs == {q \in k..d : q <= Len(s) /\ Char(s, q) \notin stop}
    IN IF qs = {} THEN 0 ELSE CHOOSE q \in qs : \A r \in qs : r <= q

NoMatch == [ok |-> FALSE, name |-> "", value |-> "", end |-> 0]

\* <prefix>(\w+)\s*<sign>\s*([^stop]+) with the prefix found at position k
MatchAt(s, k, prefix, sign, stop) ==
    LET a == k + Len(prefix)
        b == WordEnd(s, a)
        c == SkipWs(s, b)
        q == GroupStart(s, c + 1, stop)
        e == RunEnd(s, q, stop)
    IN IF b > a /\ c <= Len(s) /\ Char(s, c) = sign /\ q # 0
       THEN [ok |-> TRUE, name |-> SubSeq(s, a, b - 1),
             value |-> SubSeq(s, q, e - 1), end |-> e]
       ELSE NoMatch

\* r'//\s*(\w+)\s*-\s*([^\n\r]+)' with "//" at position k
TypeMatchAt(s, k) == MatchAt(s, SkipWs(s, k + 2), "", "-", {"\n", "\r"})

\* r'Форма\.(\w+)\s*=\s*([^;\n]+)' with "Forma." at position k
FormAttrMatchAt(s, k) == MatchAt(s, k, "Forma.", "=", {";", "\n"})

\* re.findall(type_pattern, content) from position p on
RECURSIVE FindAllTypes(_, _)
FindAllTypes(s, p) ==
    LET k == FindFrom(s, "//", p)
        m == TypeMatchAt(s, k)
    IN IF k = 0 THEN <<>>
       ELSE IF m.ok THEN <<m>> \o FindAllTypes(s, m.end)
       ELSE FindAllTypes(s, k + 1)

\* re.findall(form_attr_pattern, content) from position p on
RECURSIVE FindAllFormAttrs(_, _)
FindAllFormAttrs(s, p) ==
    LET k == FindFrom(s, "Forma.", p)
        m == FormAttrMatchAt(s, k)
    IN IF k = 0 THEN <<>>
       ELSE IF m.ok THEN <<m>> \o FindAllFormAttrs(s, m.end)
       ELSE FindAllFormAttrs(s, k + 1)

\* re.search(r'<keyword>\s+(\w+)', text) from position p on: the group, or ""
RECURSIVE SearchWordAfter(_, _, _)
SearchWordAfter(s, keyword, p) ==
    LET k == FindFrom(s, keyword, p)
        a == k + Len(keyword)
        b == SkipWs(s, a)
        e == WordEnd(s, b)
    IN IF k = 0 THEN ""
       ELSE IF b > a /\ e > b THEN SubSeq(s, b, e - 1)
       ELSE SearchWordAfter(s, keyword, k + 1)

\* the elif chain of lines 314-351 below the 'Новый' test: the substrings
\* looked for, and the type recorded
ValuePatterns ==
    <<[any |-> {"Spravochniki."}, type |-> "SpravochnikSsylka"],
      [any |-> {"Dokumenty."}, type |-> "DokumentSsylka"],
      [any |-> {"Perechisleniya."}, type |-> "PerechislenieSsylka"],
      [any |-> {"Polzovateli."}, type |-> "PolzovatelSsylka"],
      [any |-> {"Sotrudniki."}, type |-> "SotrudnikSsylka"],
      [any |-> {"TablitsaZnacheniy"}, type |-> "TablitsaZnacheniy"],
      [any |-> {"Massiv"}, type |-> "Massiv"],
      [any |-> {"Struktura"}, type |-> "Struktura"],
      [any |-> {"Sootvetstvie"}, type |-> "Sootvetstvie"],
      [any |-> {"SpisokZnacheniy"}, type |-> "SpisokZnacheniy"],
      [any |-> {"Zapros"}, type |-> "Zapros"],
      [any |-> {"RezultatZaprosa"}, type |-> "RezultatZaprosa"],
      [any |-> {"NaborZapisey"}, type |-> "NaborZapisey"],
      [any |-> {"RegistrNakopleniya"}, type |-> "RegistrNakopleniya"],
      [any |-> {"RegistrSvedeniy"}, type |-> "RegistrSvedeniy"],
      [any |-> {"RegistrBukhgalterii"}, type |-> "RegistrBukhgalterii"],
      [any |-> {"RegistrRascheta"}, type |-> "RegistrRascheta"],
      [any |-> {"TekushchayaData", "TekushchayaDataSeansa"}, type |-> "Data"],
      [any |-> {"Istina", "Lozh"}, type |-> "Bulevo"]>>

\* str.isdigit
IsDigit(s) == Len(s) > 0 /\ AllDigits(s)

RECURSIVE PatternType(_, _)
PatternType(value, n) ==
    IF n > Len(ValuePatterns)
    THEN IF IsDigit(Strip(value)) THEN "Chislo"
         ELSE IF StartsWith(Strip(value), "\"") /\ EndsWith(Strip(value), "\"")
         THEN "Stroka"
         ELSE Undefined
    ELSE IF \E p \in ValuePatterns[n].any : Contains(value, p)
         THEN ValuePatterns[n].type
         ELSE PatternType(value, n + 1)

\* lines 308-357: the type recorded for an assigned value, "" when none is
ValueType(value) ==
    IF Contains(value, "Novyy")
    THEN SearchWordAfter(value, "Novyy", 1)
    ELSE PatternType(value, 1)

\* lines 297-300
RECURSIVE AttributeTypes(_, _)
AttributeTypes(matches, d) ==
    IF Len(matches) = 0 THEN d
    ELSE LET m == Head(matches)
             var_type == RStripSet(RStripSet(Strip(m.value), {";"}), {","})
         IN AttributeTypes(Tail(matches), ODictSet(d, m.name, var_type))

\* lines 306-357
RECURSIVE FormAttributes(_, _)
FormAttributes(matches, d) ==
    IF Len(matches) = 0 THEN d
    ELSE LET m == Head(matches)
             t == ValueType(m.value)
         IN FormAttributes(Tail(matches),
                           IF t = "" THEN d ELSE ODictSet(d, m.name, t))

\* lines 381-389 and 393-401: the action recorded for a procedure or function
ActionOf(line, proc) ==
    IF Contains(line, "&NaKliente") THEN proc \o "NaKliente"
    ELSE IF Contains(line, "&NaServere") THEN proc \o "NaServere"
    ELSE IF Contains(line, "&NaKlienteNaServere") THEN proc \o "NaKlienteNaServere"
    ELSE proc \o " (kontekst ne opredelen)"

\* lines 371-403
RECURSIVE CommandActions(_, _)
CommandActions(ls, d) ==
    IF Len(ls) = 0 THEN d
    ELSE LET line == Strip(Head(ls))
             proc == SearchWordAfter(line, "Protsedura", 1)
             func == SearchWordAfter(line, "Funktsiya", 1)
         IN CommandActions(Tail(ls),
                IF proc # "" THEN ODictSet(d, proc, ActionOf(line, proc))
                ELSE IF func # "" THEN ODictSet(d, func, ActionOf(line, func))
                ELSE d)

\* lines 280-285
Context(content) ==
    (IF Contains(content, "&NaKliente") THEN <<"NaKliente">> ELSE <<>>) \o
    (IF Contains(content, "&NaServere") THEN <<"NaServere">> ELSE <<>>) \o
    (IF Contains(content, "&NaKlienteNaServere")
     THEN <<"NaKlienteNaServere">> ELSE <<>>)

\* the module data of a form without Module.bsl ({} read with .get defaults),
\* and of a module that could not be read (line 409)
NoModuleData ==
    [context |-> <<>>, attribute_types |-> <<>>, command_actions |-> <<>>,
     variable_types |-> <<>>, form_attributes |-> <<>>]

parse_bsl_module(content) ==
    [context |-> Context(content),
     attribute_types |-> AttributeTypes(FindAllTypes(content, 1), <<>>),
     command_actions |-> CommandActions(Split(content, "\n"), <<>>),
     variable_types |-> <<>>,
     form_attributes |-> FormAttributes(FindAllFormAttrs(content, 1), <<>>)]

-----------------------------------------------------------------------------
(* old/form_contracts_generator.py: generate_form_contract, save           *)
(*   Spravochnik = Справочник   Dokument = Документ   Otchet = Отчет       *)
(*   Obrabotka = Обработка      ObshchayaForma = ОбщаяФорма                *)

OwnerKinds ==
    <<[dir |-> "Catalogs", owner |-> "Spravochnik"],
      [dir |-> "Documents", owner |-> "Dokument"],
      [dir |-> "Reports", owner |-> "Otchet"],
      [dir |-> "DataProcessors", owner |-> "Obrabotka"],
      [dir |-> "CommonForms", owner |-> "ObshchayaForma"]>>

\* lines 416-431, from part n of the path on
RECURSIVE OwnerFrom(_, _)
OwnerFrom(parts, n) ==
    IF n > Len(parts) THEN Undefined
    ELSE IF /\ \E k \in 1..Len(OwnerKinds) : OwnerKinds[k].dir = parts[n]
            /\ n < Len(parts)
         THEN LET k == CHOOSE k \in 1..Len(OwnerKinds) :
                            OwnerKinds[k].dir = parts[n]
              IN OwnerKinds[k].owner \o "." \o parts[n + 1]
         ELSE OwnerFrom(parts, n + 1)

determine_owner_type(parts) == OwnerFrom(parts, 1)

\* form_path.parent.parent.name, line 438
FormName(parts) == IF Len(parts) >= 3 THEN parts[Len(parts) - 2] ELSE ""

\* lines 453-462
NewContract(parts, form_data, md) ==
    [owner |-> determine_owner_type(parts),
     name |-> FormName(parts),
     context |-> md.context,
     object_type |-> form_data.object_type,
     attributes |-> form_data.attributes,
     controls |-> form_data.controls,
     commands |-> form_data.commands,
     tabular_sections |-> form_data.tabular_sections]

\* lines 465-470, for one attribute
MergeAttribute(md, attr) ==
    IF ODictHas(md.attribute_types, attr.name)
    THEN [attr EXCEPT !.type = ODictGet(md.attribute_types, attr.name)]
    ELSE IF ODictHas(md.form_attributes, attr.name)
    THEN [attr EXCEPT !.type = ODictGet(md.form_attributes, attr.name)]
    ELSE attr

RefinedTypes ==
    {Undefined, "Field", "Input", "TextBox", "TextEdit", "NumberEdit", "DateEdit"}

\* lines 473-481, for one control
MergeControl(md, ctrl) ==
    IF ctrl.type \in RefinedTypes
    THEN IF ODictHas(md.form_attributes, ctrl.name)
         THEN [ctrl EXCEPT !.type = ODictGet(md.form_attributes, ctrl.name)]
         ELSE IF ODictHas(md.attribute_types, ctrl.name)
         THEN [ctrl EXCEPT !.type = ODictGet(md.attribute_types, ctrl.name)]
         ELSE ctrl
    ELSE ctrl

\* lines 484-486, for one command
MergeCommand(md, cmd) ==
    IF ODictHas(md.command_actions, cmd.name)
    THEN [cmd EXCEPT !.action = ODictGet(md.command_actions, cmd.name)]
    ELSE cmd

MergeAttributes(c, md) ==
    [c EXCEPT !.attributes = [n \in 1..Len(@) |-> MergeAttribute(md, @[n])]]
MergeControls(c, md) ==
    [c EXCEPT !.controls = [n \in 1..Len(@) |-> MergeControl(md, @[n])]]
MergeCommands(c, md) ==
    [c EXCEPT !.commands = [n \in 1..Len(@) |-> MergeCommand(md, @[n])]]

\* lines 447-450
ModuleData(module) ==
    IF module.exists THEN parse_bsl_module(module.content) ELSE NoModuleData

\* generate_form_contract of a readable form [path, readable, wellformed,
\* elements] with its module [exists, content]
generate_form_contract(file, module) ==
    LET md == ModuleData(module)
    IN MergeCommands(
           MergeControls(
               MergeAttributes(
                   NewContract(file.path, parse_form_xml(file), md), md),
               md),
           md)

\* lines 496-499
FormContractPath(c) ==
    IF c.owner # Undefined
    THEN c.owner \o "." \o c.name \o ".json"
    ELSE c.name \o ".json"

\* save_form_contract
SaveFormContract(fs, c) == SetKey(fs, FormContractPath(c), c)

\* clean_output_directory, lines 72-92: every .json file and every
\* subdirectory goes; the output directories of the model hold nothing else
CleanFormOutput(fs) == <<>>

\* the constructor, then generate_all_form_contracts over the forms of the
\* configuration in the order rglob finds them; the loop of lines 512-515 has
\* no handler, so the OSError of an unreadable Form.xml ends it
RECURSIVE SaveAllForms(_, _)
SaveAllForms(forms, fs) ==
    IF Len(forms) = 0 THEN fs
    ELSE IF ~Head(forms).file.readable THEN fs
    ELSE SaveAllForms(Tail(forms),
             SaveFormContract(fs,
                 generate_form_contract(Head(forms).file, Head(forms).module)))

generate_all_form_contracts(forms, clean_output, fs) ==
    SaveAllForms(forms, IF clean_output THEN CleanFormOutput(fs) ELSE fs)

-----------------------------------------------------------------------------
(* The run of generate_all_form_contracts, one action per step of          *)
(* generate_form_contract                                                  *)

\* the most elements below the root of a form of MergeSpec, and the most
\* lines of its module
MaxMergeNodes == 2
MaxStmts == 2

MergeNodes ==
    {[depth |-> 1, tag |-> "Attribute",
      attrib |-> [name |-> "Nom", Type |-> "Stroka"]],
     [depth |-> 1, tag |-> "Attribute", attrib |-> [name |-> "Nom"]],
     [depth |-> 1, tag |-> "InputField", attrib |-> [name |-> "Nom"]],
     [depth |-> 1, tag |-> "Button",
      attrib |-> [name |-> "Cmd", CommandName |-> "Cmd"]]}

ScriptLines ==
    {"// Nom - Chislo",
     "// Nom - Neopredeleno",
     "Forma.Nom = 5;",
     "Forma.Nom = Foo();",
     "&NaKliente Protsedura Cmd()"}

\* a module is [exists, content]
NoModule == [exists |-> FALSE, content |-> ""]

Modules(ls, max) ==
    {NoModule} \cup
    {[exists |-> TRUE, content |-> Join(t, "\n")] : t \in SeqsUpTo(ls, max)}

\* a form outside the directories determine_owner_type knows
OtherForm ==
    [file |-> [path |-> <<"conf", "Other", "G", "Ext", "Form.xml">>,
               readable |-> TRUE,
               wellformed |-> TRUE,
               elements |-> <<FormRoot, [depth |-> 1, tag |-> "Attribute",
                                         attrib |-> [name |-> "Nom"]]>>],
     module |-> [exists |-> TRUE, content |-> "// Nom - Chislo"]]

\* a second form F of the catalog A, deeper in the configuration
SameNameForm ==
    [file |-> [path |-> <<"conf", "Ext", "Catalogs", "A", "Forms", "F", "Ext", "Form.xml">>,
               readable |-> TRUE,
               wellformed |-> TRUE,
               elements |-> <<FormRoot>>],
     module |-> NoModule]

\* a Form.xml of the catalog B that cannot be read
UnreadableForm ==
    [file |-> [path |-> <<"conf", "Catalogs", "B", "Forms", "U", "Ext", "Form.xml">>,
               readable |-> FALSE,
               wellformed |-> FALSE,
               elements |-> <<>>],
     module |-> NoModule]

\* a form whose attribute Nom has no entry of its own in the module, which
\* names Nomer
FuzzyForm ==
    [file |-> [path |-> FormPath,
               readable |-> TRUE,
               wellformed |-> TRUE,
               elements |-> <<FormRoot, [depth |-> 1, tag |-> "Attribute",
                                         attrib |-> [name |-> "Nom"]]>>],
     module |-> [exists |-> TRUE, content |-> "// Nomer - Chislo"]]

\* MergeSpec: one form of the catalog A, or one of the fixed configurations
Configurations ==
    {<<[file |-> f, module |-> m]>> :
        f \in FormFiles(MergeNodes, MaxMergeNodes),
        m \in Modules(ScriptLines, MaxStmts)}
    \cup {<<>>, <<OtherForm, SameNameForm>>, <<SameNameForm, OtherForm>>,
          <<UnreadableForm, OtherForm>>, <<OtherForm, UnreadableForm>>,
          <<FuzzyForm>>}

StaleForms == [p \in {"Old.json"} |-> [owner |-> Undefined, name |-> "Old"]]

NoFile == [path |-> <<>>, readable |-> FALSE, wellformed |-> FALSE, elements |-> <<>>]

MergeInit ==
    /\ conf \in Configurations
    /\ files = StaleForms
    /\ pc = "new"
    /\ doc = NoFile
    /\ script = NoModule
    /\ walked = 0
    /\ form = NewForm
    /\ module_data = NoModuleData
    /\ contract = <<>>
    /\ objects = <<>>
    /\ run_dir = ""
    /\ RunIdle
    /\ lines = <<>>
    /\ i = 0
    /\ current_object = None
    /\ last_typed_element = NoFocus
    /\ saved = <<>>

\* FormContractGenerator.__init__, lines 61-70
Construct ==
    /\ pc = "new"
    /\ \E clean_output \in BOOLEAN :
          files' = IF clean_output THEN CleanFormOutput(files) ELSE files
    /\ pc' = "next"
    /\ UNCHANGED <<mainVars, formVars, metaVars, runVars>>

\* generate_all_form_contracts takes the next form, lines 512-513
NextForm ==
    /\ pc = "next"
    /\ Len(conf) > 0
    /\ doc' = Head(conf).file
    /\ script' = Head(conf).module
    /\ conf' = Tail(conf)
    /\ pc' = "markup"
    /\ UNCHANGED <<mainVars, files, walked, form, module_data, contract, metaVars, runVars>>

\* generate_form_contract, line 444: parse_form_xml raises OSError and
\* nothing between it and the caller of generate_all_form_contracts handles it
MarkupRaises ==
    /\ pc = "markup"
    /\ ~doc.readable
    /\ pc' = "raised"
    /\ UNCHANGED <<mainVars, formVars, files, metaVars, runVars>>

\* generate_form_contract, line 444
ParseMarkup ==
    /\ pc = "markup"
    /\ doc.readable
    /\ form' = ParsedForm(doc)
    /\ pc' = "module"
    /\ UNCHANGED <<mainVars, files, conf, doc, script, walked, module_data, contract, metaVars, runVars>>

\* generate_form_contract, lines 447-462
ParseModule ==
    /\ pc = "module"
    /\ module_data' = ModuleData(script)
    /\ contract' = NewContract(doc.path, form.form_data, ModuleData(script))
    /\ pc' = "attributes"
    /\ UNCHANGED <<mainVars, files, conf, doc, script, walked, form, metaVars, runVars>>

MergeFrame ==
    UNCHANGED <<mainVars, files, conf, doc, script, walked, form, module_data, metaVars, runVars>>

\* generate_form_contract, lines 464-470
RefineAttributes ==
    /\ pc = "attributes"
    /\ contract' = MergeAttributes(contract, module_data)
    /\ pc' = "controls"
    /\ MergeFrame

\* generate_form_contract, lines 472-481
RefineControls ==
    /\ pc = "controls"
    /\ contract' = MergeControls(contract, module_data)
    /\ pc' = "commands"
    /\ MergeFrame

\* generate_form_contract, lines 483-488
RefineCommands ==
    /\ pc = "commands"
    /\ contract' = MergeCommands(contract, module_data)
    /\ pc' = "save"
    /\ MergeFrame

\* save_form_contract, lines 514-515
SaveForm ==
    /\ pc = "save"
    /\ files' = SaveFormContract(files, contract)
    /\ pc' = "next"
    /\ UNCHANGED <<mainVars, formVars, metaVars, runVars>>

\* generate_all_form_contracts returns, line 517
AllFormsDone ==
    /\ pc = "next"
    /\ Len(conf) = 0
    /\ pc' = "done"
    /\ UNCHANGED <<mainVars, formVars, files, metaVars, runVars>>

MergeNext ==
    \/ Construct
    \/ NextForm
    \/ MarkupRaises
    \/ ParseMarkup
    \/ ParseModule
    \/ RefineAttributes
    \/ RefineControls
    \/ RefineCommands
    \/ SaveForm
    \/ AllFormsDone

MergeSpec == MergeInit /\ [][MergeNext]_vars

-----------------------------------------------------------------------------
(* src/core/metadata_generator.py                                          *)
(*   Spravochnik = Справочник   Dokument = Документ   Konstanta = Константа *)
(*   Otchet = Отчет   Obrabotka = Обработка   Prochee = Прочее             *)

\* _extract_object_type: the prefixes tried in order, and the type returned
ObjectTypes ==
    <<[prefix |-> "Spravochniki.", type |-> "Spravochnik"],
      [prefix |-> "Dokumenty.", type |-> "Dokument"],
      [prefix |-> "Konstanty.", type |-> "Konstanta"],
      [prefix |-> "Otchety.", type |-> "Otchet"],
      [prefix |-> "Obrabotki.", type |-> "Obrabotka"],
      [prefix |-> "RegistrySvedeniy.", type |-> "RegistrSvedeniy"],
      [prefix |-> "RegistryNakopleniya.", type |-> "RegistrNakopleniya"]>>

RECURSIVE ObjectTypeFrom(_, _)
ObjectTypeFrom(object_name, n) ==
    IF n > Len(ObjectTypes) THEN Undefined
    ELSE IF StartsWith(object_name, ObjectTypes[n].prefix)
         THEN ObjectTypes[n].type
         ELSE ObjectTypeFrom(object_name, n + 1)

_extract_object_type(object_name) == ObjectTypeFrom(object_name, 1)

\* the locals of parse_report before its loop: objects is an insertion-ordered
\* dict, current_object "" where the source has None
ReportStart == [objects |-> <<>>, current_object |-> ""]

\* parse_report, lines 102-117
IsReportRoot(line) ==
    /\ Len(line) - Len(LStrip(line)) = 0
    /\ \E root_type \in ALLOWED_ROOT_TYPES :
          StartsWith(Strip(line), "- " \o root_type \o ".")

ReportRoot(st, line) ==
    LET object_name == From(Strip(line), 2)
    IN [objects |-> ODictSet(st.objects, object_name,
                       [name |-> object_name,
                        type |-> _extract_object_type(object_name),
                        attributes |-> <<>>,
                        tabular_sections |-> <<>>,
                        comment |-> ""]),
        current_object |-> object_name]

\* objects[current_object] = f(objects[current_object])
WithCurrent(st, obj) ==
    [st EXCEPT !.objects = ODictSet(@, st.current_object, obj)]

\* parse_report, lines 120-162
ReportNested(st, line) ==
    LET clean_line == Strip(LStripSet(Strip(line), {"-", " "}))
        obj == ODictGet(st.objects, st.current_object)
        comment == StripSet(Strip(From(clean_line, 12)), {"\""})
        type_value == Strip(From(clean_line, 4))
        parts == Split(clean_line, ".")
        attr_name == parts[Len(parts)]
        n == Len(obj.attributes)
    IN IF StartsWith(clean_line, "Kommentariy:")
       THEN WithCurrent(st, [obj EXCEPT !.comment = comment])
       ELSE IF StartsWith(clean_line, "Tip:")
       THEN IF type_value # "" /\ n > 0
            THEN WithCurrent(st, [obj EXCEPT !.attributes[n].type = type_value])
            ELSE st
       ELSE IF Contains(clean_line, ".")
       THEN IF Contains(clean_line, "TablichnyeChasti")
            THEN WithCurrent(st, [obj EXCEPT !.tabular_sections =
                     Append(@, [name |-> attr_name,
                                type |-> "TablichnayaChast",
                                attributes |-> <<>>])])
            ELSE WithCurrent(st, [obj EXCEPT !.attributes =
                     Append(@, [name |-> attr_name, type |-> Undefined,
                                path |-> clean_line])])
       ELSE st

\* the body of the loop of parse_report, lines 93-162
ReportLine(st, line) ==
    IF Strip(line) = "" THEN st
    ELSE IF IsReportRoot(line) THEN ReportRoot(st, line)
    ELSE IF st.current_object # "" /\ Len(line) - Len(LStrip(line)) > 0
    THEN ReportNested(st, line)
    ELSE st

RECURSIVE ReportFrom(_, _)
ReportFrom(st, ls) ==
    IF Len(ls) = 0 THEN st ELSE ReportFrom(ReportLine(st, Head(ls)), Tail(ls))

\* parse_report over content.split('\n')
parse_report(ls) == ReportFrom(ReportStart, ls).objects

\* generate_contract; cwd is Path().cwd() at the time of the call
generate_contract(object_data, cwd) ==
    [metadata_type |-> "Object",
     name |-> object_data.name,
     type |-> object_data.type,
     comment |-> object_data.comment,
     structure |-> [attributes_count |-> Len(object_data.attributes),
                    tabular_sections_count |-> Len(object_data.tabular_sections),
                    attributes |-> object_data.attributes,
                    tabular_sections |-> object_data.tabular_sections],
     generated_at |-> cwd,
     source |-> "Text Report"]

\* save_contract, lines 209-221
Folder(object_type) ==
    IF object_type = "Spravochnik" THEN "Spravochniki"
    ELSE IF object_type = "Dokument" THEN "Dokumenty"
    ELSE IF object_type = "Otchet" THEN "Otchety"
    ELSE IF object_type = "Obrabotka" THEN "Obrabotki"
    ELSE IF object_type = "Konstanta" THEN "Konstanty"
    ELSE "Prochee"

\* save_contract, lines 224-231
MetadataPath(c, object_name) ==
    LET parts == Split(object_name, ".")
    IN Folder(c.type) \o "/" \o parts[Len(parts)] \o ".json"

SaveMetadata(fs, c, object_name) == SetKey(fs, MetadataPath(c, object_name), c)

\* clean_output_directory, lines 54-67: every .json file below the output
\* directory goes; the output directories of the model hold nothing else
CleanMetadataOutput(fs) == <<>>

\* the loop of generate, lines 256-262
RECURSIVE SaveAllObjects(_, _, _)
SaveAllObjects(items, cwd, fs) ==
    IF Len(items) = 0 THEN fs
    ELSE SaveAllObjects(Tail(items), cwd,
             SaveMetadata(fs, generate_contract(Head(items).v, cwd),
                          Head(items).k))

\* MetadataGenerator.generate
generate(ls, cwd, fs) ==
    SaveAllObjects(parse_report(ls), cwd, CleanMetadataOutput(fs))

-----------------------------------------------------------------------------
(* Runs of the three generators, one after the other, on one output        *)
(* directory and unchanged inputs                                          *)

\* the longest report of RerunSpec
MaxRerunLines == 3

RerunLines ==
    {"- Spravochniki.A",
     "- Dokumenty.B",
     "  - Spravochniki.A.Rekvizity.X",
     "    Tip: Stroka"}

RerunConfigurations == {<<>>, <<OtherForm>>, <<OtherForm, SameNameForm>>}

\* the directories a run can be started from
WorkingDirs == {"/home/user", "/tmp"}

RerunInit ==
    /\ lines \in SeqsUpTo(RerunLines, MaxRerunLines)
    /\ conf \in RerunConfigurations
    /\ files \in {<<>>, StaleFiles}
    /\ pc = "idle"
    /\ i = 0
    /\ current_object = None
    /\ last_typed_element = NoFocus
    /\ saved = <<>>
    /\ doc = NoFile
    /\ script = NoModule
    /\ walked = 0
    /\ form = NewForm
    /\ module_data = NoModuleData
    /\ contract = <<>>
    /\ objects = <<>>
    /\ run_dir = ""
    /\ RunIdle

RerunFrame ==
    UNCHANGED <<lines, i, current_object, last_typed_element, saved, formVars, metaVars, runVars>>

\* generate_contracts.main on the report
RunMain ==
    /\ files' = Main(lines, files).files
    /\ pc' = "main"
    /\ RerunFrame

\* FormContractGenerator(conf, output, clean_output).generate_all_form_contracts()
RunForms ==
    \E clean_output \in BOOLEAN :
        /\ files' = generate_all_form_contracts(conf, clean_output, files)
        /\ pc' = IF clean_output THEN "forms" ELSE "forms_keep"
        /\ RerunFrame

\* MetadataGenerator(report, output).generate(), started from some directory
RunMetadata ==
    \E cwd \in WorkingDirs :
        /\ files' = generate(lines, cwd, files)
        /\ pc' = "metadata"
        /\ RerunFrame

RerunNext == RunMain \/ RunForms \/ RunMetadata

RerunSpec == RerunInit /\ [][RerunNext]_vars

-----------------------------------------------------------------------------
(* Properties of parse_form_xml *)

\* the elements that walk records as controls, in document order: the n-th
\* of them is the n-th entry of form_data["controls"]
ControlNodes == SelectSeq(doc.elements, IsControl)

AttributeNodes ==
    SelectSeq(doc.elements,
              LAMBDA el : EndsWith(el.tag, "Attribute") /\ NameOf(el) # "")

HasExplicitType(element) == \E n \in 1..Len(TypeKeys) : Get(element, TypeKeys[n]) # ""

\* C6: when parse_form_xml returns, a control whose element carries an
\* explicit type attribute (under any of the aliases) has exactly that type
C6_ExplicitTypeWins ==
    pc = "parsed" /\ doc.wellformed =>
        \A n \in 1..Len(ControlNodes) :
            HasExplicitType(ControlNodes[n]) =>
                \E m \in 1..Len(TypeKeys) :
                    /\ Get(ControlNodes[n], TypeKeys[m]) # ""
                    /\ form.form_data.controls[n].type = Get(ControlNodes[n], TypeKeys[m])

\* C7: when parse_form_xml returns, a control without an explicit type whose
\* name equals the name of a declared attribute has the type of an attribute
\* of that name, whatever keyword it matched and whatever other attributes
\* or tabular sections overlap its name
C7_ExactNameWins ==
    pc = "parsed" /\ doc.wellformed =>
        \A n \in 1..Len(ControlNodes) :
            /\ ~HasExplicitType(ControlNodes[n])
            /\ \E a \in 1..Len(AttributeNodes) :
                  NameOf(AttributeNodes[a]) = NameOf(ControlNodes[n])
            => \E a \in 1..Len(AttributeNodes) :
                  /\ NameOf(AttributeNodes[a]) = NameOf(ControlNodes[n])
                  /\ form.form_data.controls[n].type = extract_type(AttributeNodes[a])

-----------------------------------------------------------------------------
(* Properties of generate_form_contract *)

\* the types other than the default that the script overlay holds for a name
OverlayTypes(name) ==
    ((IF ODictHas(module_data.attribute_types, name)
      THEN {ODictGet(module_data.attribute_types, name)} ELSE {})
     \cup
     (IF ODictHas(module_data.form_attributes, name)
      THEN {ODictGet(module_data.form_attributes, name)} ELSE {}))
    \ {Undefined}

\* C8: in the merged contract, an attribute that the markup left with the
\* default type and for which the script overlay (attribute_types or
\* form_attributes) holds a type other than the default has a type the
\* overlay holds
C8_OverlayFillsDefault ==
    pc = "save" =>
        \A n \in 1..Len(contract.attributes) :
            /\ form.form_data.attributes[n].type = Undefined
            /\ OverlayTypes(contract.attributes[n].name) # {}
            => contract.attributes[n].type \in OverlayTypes(contract.attributes[n].name)

\* C9: in the merged contract, no attribute and no control that the markup
\* gave a type other than the default (for a control: other than the default
\* and the control keywords) has the default type
C9_DefaultNeverOverwrites ==
    pc = "save" =>
        /\ \A n \in 1..Len(contract.attributes) :
              form.form_data.attributes[n].type # Undefined
              => contract.attributes[n].type # Undefined
        /\ \A n \in 1..Len(contract.controls) :
              /\ form.form_data.controls[n].type # Undefined
              /\ ~InKeywords(form.form_data.controls[n].type)
              => contract.controls[n].type # Undefined

-----------------------------------------------------------------------------
(* Properties of regeneration *)

\* C1: a generator that runs again right after itself, on the same inputs
\* and the same output directory, leaves the files and their contents as
\* its first run left them
C1_Idempotent == [][pc' = pc => files' = files]_vars

-----------------------------------------------------------------------------
(* Properties of the report tree builder: the open entity and its focus *)

\* last_typed_element is None or refers to an attribute or a column of obj
FocusInside(obj, f) ==
    \/ f = NoFocus
    \/ /\ obj # None
       /\ f.kind = "attr"
       /\ f.idx \in 1..Len(obj.data.attributes)
    \/ /\ obj # None
       /\ f.kind = "col"
       /\ ODictHas(obj.data.tabular_sections, f.ts)
       /\ f.idx \in 1..Len(ODictGet(obj.data.tabular_sections, f.ts).attributes)

\* the lines that write a field or create an element
FieldKinds == {"child", "comment", "type"}

\* C11: one open entity, closed entities are frozen.  The only entity a line
\* can write to is current_object: in every pass of the loop the focus is none
\* or an element of the entity that is open after the pass, a root marker
\* leaves no focus, the contracts saved so far stay as they were saved, and a
\* child, comment or type line neither saves a contract nor touches a written
\* file.
C11_ClosedEntityFrozen ==
    [][InLoop =>
          /\ FocusInside(current_object', last_typed_element')
          /\ Len(saved') >= Len(saved)
          /\ SubSeq(saved', 1, Len(saved)) = saved
          /\ LineKind(lines[i], current_object) = "root" =>
                 last_typed_element' = NoFocus
          /\ LineKind(lines[i], current_object) \in FieldKinds =>
                 saved' = saved /\ files' = files]_vars

\* an entity with an attribute in focus was closed by the next marker, and a
\* comment line after that marker went to the new entity
C11_Witness ==
    /\ pc = "loop"
    /\ Len(saved) >= 1
    /\ Len(saved[1].data.attributes) >= 1
    /\ saved[1].data.attributes[1].comment = NoComment
    /\ saved[1].data.comment = NoComment
    /\ current_object # None
    /\ current_object.data.comment # NoComment
    /\ last_typed_element = NoFocus

\* the types written in a contract: of its attributes and of the columns of
\* its tabular sections
WrittenTypes(data) ==
    {data.attributes[n].type : n \in 1..Len(data.attributes)} \cup
    UNION {{data.tabular_sections[s].v.attributes[n].type :
               n \in 1..Len(data.tabular_sections[s].v.attributes)} :
           s \in 1..Len(data.tabular_sections)}

\* C12: soft-default sentinel.  No contract main saves holds an attribute or
\* a column with an empty type: an element without a type block carries the
\* sentinel.
C12_NoEmptyType ==
    \A n \in 1..Len(saved) : "" \notin WrittenTypes(saved[n].data)

-----------------------------------------------------------------------------
(* Properties of the run of generate_all_form_contracts *)

\* the run has stopped: it returned, or an exception left it
Stopped == pc \in {"done", "raised"}

\* C13: per-file failure isolation.  Whatever happens to one Form.xml or
\* Module.bsl, generate_all_form_contracts returns, and when it stops it has
\* visited every form of the configuration.
C13_FailureIsolation == Stopped => pc = "done" /\ conf = <<>>

-----------------------------------------------------------------------------
(* The run of MetadataGenerator.generate, one action per pass of the loop  *)
(* of parse_report and one per object saved                                *)
(*   Zadachi = Задачи   SpravochnikSsylka = СправочникСсылка               *)

\* the longest report of MetadataSpec
MaxMetaLines == 3

MetaLines ==
    {"- Spravochniki.A",
     "- RegistrySvedeniy.A",
     "- Zadachi.A",
     "- Spravochniki.A.B",
     "  - Dokumenty.B",
     "  - Spravochniki.A.Rekvizity.X",
     "  - Spravochniki.A.TablichnyeChasti.T",
     "  - Spravochniki.A.TablichnyeChasti.T.Rekvizity.C",
     "    Tip: Stroka",
     "      \"SpravochnikSsylka.B\",",
     ""}

\* saved is the log of the save_contract calls that wrote a file
MetaInit ==
    /\ lines \in SeqsUpTo(MetaLines, MaxMetaLines)
    /\ i = 1
    /\ current_object = ""
    /\ objects = <<>>
    /\ run_dir \in WorkingDirs
    /\ RunIdle
    /\ saved = <<>>
    /\ files = StaleFiles
    /\ pc = "clean"
    /\ last_typed_element = NoFocus
    /\ FormIdle

MetaFrame == UNCHANGED <<lines, last_typed_element, run_dir, formVars, runVars>>

\* generate, line 245
CleanOutput ==
    /\ pc = "clean"
    /\ files' = CleanMetadataOutput(files)
    /\ pc' = "parse"
    /\ UNCHANGED <<i, current_object, objects, saved>>
    /\ MetaFrame

\* the locals of parse_report as one value
ReportSt == [objects |-> objects, current_object |-> current_object]

\* which branch of the loop body of parse_report a line takes, lines 94-120
ReportLineKind(line, cur) ==
    IF Strip(line) = "" THEN "blank"
    ELSE IF IsReportRoot(line) THEN "root"
    ELSE IF cur # "" /\ Len(line) - Len(LStrip(line)) > 0 THEN "nested"
    ELSE "other"

ReportVisit(kind) ==
    /\ pc = "parse"
    /\ i <= Len(lines)
    /\ ReportLineKind(lines[i], current_object) = kind
    /\ objects' = ReportLine(ReportSt, lines[i]).objects
    /\ current_object' = ReportLine(ReportSt, lines[i]).current_object
    /\ i' = i + 1
    /\ UNCHANGED <<files, saved, pc>>
    /\ MetaFrame

ReportBlank == ReportVisit("blank")
ReportRootObject == ReportVisit("root")
ReportNestedLine == ReportVisit("nested")
ReportOtherLine == ReportVisit("other")

\* generate, lines 248-252: parse_report found nothing
NoObjects ==
    /\ pc = "parse"
    /\ i > Len(lines)
    /\ objects = <<>>
    /\ pc' = "failed"
    /\ UNCHANGED <<i, current_object, objects, saved, files>>
    /\ MetaFrame

\* generate, line 256: the loop over objects.items() starts; i counts its
\* passes from here on
StartSaving ==
    /\ pc = "parse"
    /\ i > Len(lines)
    /\ objects # <<>>
    /\ pc' = "save"
    /\ i' = 1
    /\ UNCHANGED <<current_object, objects, saved, files>>
    /\ MetaFrame

\* generate, lines 257-260: generate_contract and save_contract for one object
SaveObject ==
    /\ pc = "save"
    /\ i <= Len(objects)
    /\ LET c == generate_contract(objects[i].v, run_dir)
       IN /\ files' = SaveMetadata(files, c, objects[i].k)
          /\ saved' = Append(saved, [path |-> MetadataPath(c, objects[i].k),
                                     name |-> objects[i].k])
    /\ i' = i + 1
    /\ UNCHANGED <<current_object, objects, pc>>
    /\ MetaFrame

\* generate, lines 265-268
AllObjectsSaved ==
    /\ pc = "save"
    /\ i > Len(objects)
    /\ pc' = "done"
    /\ UNCHANGED <<i, current_object, objects, saved, files>>
    /\ MetaFrame

MetaNext ==
    \/ CleanOutput
    \/ ReportBlank
    \/ ReportRootObject
    \/ ReportNestedLine
    \/ ReportOtherLine
    \/ NoObjects
    \/ StartSaving
    \/ SaveObject
    \/ AllObjectsSaved

MetadataSpec == MetaInit /\ [][MetaNext]_vars

-----------------------------------------------------------------------------
(* Properties of the run of MetadataGenerator.generate *)

\* C14: one contract file per source entity.  The objects of a report are
\* distinct by their full name; no two of them are written by one run to the
\* same path.
C14_OneFilePerEntity ==
    \A a, b \in 1..Len(saved) : saved[a].path = saved[b].path => a = b

-----------------------------------------------------------------------------
(* The forms of a configuration processed as concurrent workers: each      *)
(* form is one worker that calls generate_form_contract and then           *)
(* save_form_contract, on the output directory they share.  pc and         *)
(* contract hold one entry per form.                                       *)

\* the most forms of a configuration of ScheduleSpec
MaxForms == 3

\* the form F of the catalog A, with an attribute and a module
CatalogForm ==
    [file |-> [path |-> FormPath,
               readable |-> TRUE,
               wellformed |-> TRUE,
               elements |-> <<FormRoot, [depth |-> 1, tag |-> "Attribute",
                                         attrib |-> [name |-> "Nom"]]>>],
     module |-> [exists |-> TRUE, content |-> "// Nom - Chislo"]]

\* the form F of the document B
DocumentForm ==
    [file |-> [path |-> <<"conf", "Documents", "B", "Forms", "F", "Ext", "Form.xml">>,
               readable |-> TRUE,
               wellformed |-> TRUE,
               elements |-> <<FormRoot, [depth |-> 1, tag |-> "Button",
                                         attrib |-> [name |-> "Cmd"]]>>],
     module |-> NoModule]

ScheduleForms == {CatalogForm, DocumentForm, OtherForm, SameNameForm}

\* the forms rglob finds, in the order it finds them: distinct Form.xml files
ScheduleConfigurations ==
    {c \in SeqsUpTo(ScheduleForms, MaxForms) :
        \A a, b \in 1..Len(c) : c[a] = c[b] => a = b}

ScheduleInit ==
    /\ conf \in ScheduleConfigurations
    /\ files = <<>>
    /\ pc = [k \in 1..Len(conf) |-> "start"]
    /\ contract = [k \in 1..Len(conf) |-> <<>>]
    /\ doc = NoFile
    /\ script = NoModule
    /\ walked = 0
    /\ form = NewForm
    /\ module_data = NoModuleData
    /\ lines = <<>>
    /\ i = 0
    /\ current_object = None
    /\ last_typed_element = NoFocus
    /\ saved = <<>>
    /\ objects = <<>>
    /\ run_dir = ""
    /\ RunIdle

ScheduleFrame ==
    UNCHANGED <<mainVars, metaVars, runVars, conf, doc, script, walked, form, module_data>>

\* worker k: generate_form_contract(form_path), line 513
GenerateContract(k) ==
    /\ pc[k] = "start"
    /\ contract' = [contract EXCEPT ![k] =
                       generate_form_contract(conf[k].file, conf[k].module)]
    /\ pc' = [pc EXCEPT ![k] = "save"]
    /\ UNCHANGED files
    /\ ScheduleFrame

\* worker k: save_form_contract(contract, form_path), lines 514-515
SaveContractFile(k) ==
    /\ pc[k] = "save"
    /\ files' = SaveFormContract(files, contract[k])
    /\ pc' = [pc EXCEPT ![k] = "done"]
    /\ UNCHANGED contract
    /\ ScheduleFrame

ScheduleNext ==
    \E k \in 1..Len(conf) : GenerateContract(k) \/ SaveContractFile(k)

ScheduleSpec == ScheduleInit /\ [][ScheduleNext]_vars

\* C15: order independence.  When every worker is done, the output directory
\* holds what the sequential loop over the forms leaves in it.
C15_OrderIndependent ==
    (\A k \in 1..Len(conf) : pc[k] = "done") =>
        files = SaveAllForms(conf, <<>>)

-----------------------------------------------------------------------------
(* Properties of runs on a used output directory *)

\* the paths of the contracts of the entities of the inputs, per generator
MainTargets(ls) ==
    {MarkerPath(ls[MarkerIdx(ls)[n]]) : n \in 1..Len(MarkerIdx(ls))}

FormTargets(forms) ==
    {FormContractPath(generate_form_contract(forms[k].file, forms[k].module)) :
        k \in 1..Len(forms)}

MetadataTargets(ls) ==
    LET objs == parse_report(ls)
    IN {MetadataPath(generate_contract(objs[n].v, ""), objs[n].k) :
           n \in 1..Len(objs)}

\* C16: every run supersedes the target set.  After a run of a generator the
\* output directory holds contracts of entities of that run's inputs only.
C16_RunSupersedes ==
    /\ pc = "main" => DOMAIN files \subseteq MainTargets(lines)
    /\ pc \in {"forms", "forms_keep"} => DOMAIN files \subseteq FormTargets(conf)
    /\ pc = "metadata" => DOMAIN files \subseteq MetadataTargets(lines)

\* the same without the run of the form generator that keeps the directory
C16_CleaningRuns ==
    /\ pc = "main" => DOMAIN files \subseteq MainTargets(lines)
    /\ pc = "forms" => DOMAIN files \subseteq FormTargets(conf)
    /\ pc = "metadata" => DOMAIN files \subseteq MetadataTargets(lines)

-----------------------------------------------------------------------------
(* Properties of the contracts MetadataGenerator writes *)

\* the fields a report-derived contract and its structure are to have
MetadataFields == {"metadata_type", "name", "type", "comment", "structure"}
StructureFields ==
    {"attributes_count", "tabular_sections_count", "attributes", "tabular_sections"}

\* C17: output schema.  Every contract generate writes has the fields
\* metadata_type, name, type, comment, structure and no other, and its
\* structure has attributes_count, tabular_sections_count, attributes,
\* tabular_sections and no other.
C17_MetadataSchema ==
    pc \in {"save", "done"} =>
        \A p \in DOMAIN files :
            /\ DOMAIN files[p] = MetadataFields
            /\ DOMAIN files[p].structure = StructureFields

-----------------------------------------------------------------------------
(* Properties of the overlay lookup of generate_form_contract *)

\* the position of the first key of an overlay dict, in iteration order, that
\* contains name or is contained in it; 0 when there is none
RECURSIVE FirstContaining(_, _, _)
FirstContaining(dict, name, n) ==
    IF n > Len(dict) THEN 0
    ELSE IF Contains(dict[n].k, name) \/ Contains(name, dict[n].k) THEN n
    ELSE FirstContaining(dict, name, n + 1)

\* C18: exact-then-fuzzy overlay lookup.  In the merged contract an attribute
\* with an exact overlay entry has the type of that entry (attribute_types
\* before form_attributes), and an attribute with no exact entry whose name
\* contains, or is contained in, a key of attribute_types has the type of the
\* first such key.
C18_ExactThenFuzzy ==
    pc = "save" =>
        \A n \in 1..Len(contract.attributes) :
            LET name == contract.attributes[n].name
                type == contract.attributes[n].type
                k == FirstContaining(module_data.attribute_types, name, 1)
            IN IF ODictHas(module_data.attribute_types, name)
               THEN type = ODictGet(module_data.attribute_types, name)
               ELSE IF ODictHas(module_data.form_attributes, name)
               THEN type = ODictGet(module_data.form_attributes, name)
               ELSE k > 0 => type = module_data.attribute_types[k].v

\* the exact half of the lookup alone
C18_ExactLookup ==
    pc = "save" =>
        \A n \in 1..Len(contract.attributes) :
            LET name == contract.attributes[n].name
                type == contract.attributes[n].type
            IN IF ODictHas(module_data.attribute_types, name)
               THEN type = ODictGet(module_data.attribute_types, name)
               ELSE IF ODictHas(module_data.form_attributes, name)
               THEN type = ODictGet(module_data.form_attributes, name)
               ELSE type = form.form_data.attributes[n].type

-----------------------------------------------------------------------------
(* Properties of the line recognition of parse_report *)

\* the attributes and the tabular sections of all objects found so far
RECURSIVE AttributeCount(_)
AttributeCount(objs) ==
    IF Len(objs) = 0 THEN 0
    ELSE Len(Head(objs).v.attributes) + AttributeCount(Tail(objs))

RECURSIVE SectionCount(_)
SectionCount(objs) ==
    IF Len(objs) = 0 THEN 0
    ELSE Len(Head(objs).v.tabular_sections) + SectionCount(Tail(objs))

\* the shape of a line as a child line of the open entity name: its dotted
\* path without the prefix "<name>.", when the line is a dash line with that
\* prefix
ChildLineShape(line, name) ==
    LET path == LastElementLine(line)
        suffix == Split(From(path, Len(name) + 1), ".")
    IN IF ~StartsWith(Strip(line), "-") \/ name = ""
          \/ ~StartsWith(path, name \o ".")
       THEN "none"
       ELSE IF Len(suffix) = 2 /\ suffix[1] = "Rekvizity" THEN "attribute"
       ELSE IF Len(suffix) = 2 /\ suffix[1] = "TablichnyeChasti" THEN "section"
       ELSE IF /\ Len(suffix) = 4
               /\ suffix[1] = "TablichnyeChasti"
               /\ suffix[3] = "Rekvizity"
            THEN "column"
       ELSE "none"

\* C19: child-line recognition.  A pass of parse_report's loop adds an
\* attribute only for an attribute line or a column line of the open entity,
\* and adds a tabular section only for a section line of the open entity: a
\* continuation line of a type block adds nothing, a column line adds no
\* section.
C19_ChildLines ==
    [][pc = "parse" /\ pc' = "parse" =>
          LET shape == ChildLineShape(lines[i], current_object)
          IN /\ AttributeCount(objects') > AttributeCount(objects)
                => shape \in {"attribute", "column"}
             /\ SectionCount(objects') > SectionCount(objects)
                => shape = "section"]_vars


\* C20: root-object recognition agrees between the two parsers.  The line
\* parse_report is about to visit opens a new object in parse_report exactly
\* if it is a root marker for generate_contracts.main.
C20_SameRootLines ==
    pc = "parse" /\ i <= Len(lines) =>
        (IsReportRoot(lines[i]) <=> LineKind(lines[i], None) = "root")

-----------------------------------------------------------------------------
(* The run of main on the field lines of one entity *)

\* the most lines after the first line of a report of FieldSpec
MaxFieldLines == 3

\* FieldSpec: the marker of the catalog A, or no marker, then up to
\* MaxFieldLines of these lines
FieldMenu ==
    {"  - Spravochniki.A.Rekvizity.X",
     "  - Spravochniki.A.TablichnyeChasti.T",
     "  - Spravochniki.A.TablichnyeChasti.T.Rekvizity.C",
     "  - Spravochniki.A.TablichnyeChasti.U.Rekvizity.C",
     "  - Spravochniki.A.Spravochniki.A.Rekvizity.X",
     "    Kommentariy: \"12345 and 1234\"",
     "    Kommentariy: \"67890 12345\"",
     "    Kommentariy: \"plain\"",
     "    Tip:",
     "- Foo.Bar",
     ""}

FieldInit ==
    InitMain({h \o t : h \in {<<>>, <<"- Spravochniki.A">>},
                       t \in SeqsUpTo(FieldMenu, MaxFieldLines)})
FieldSpec == FieldInit /\ [][MainNext]_vars

-----------------------------------------------------------------------------
(* Properties of the field lines of the report tree builder *)

\* the line main is about to visit is a "Kommentariy:" line with a text
CommentAhead ==
    /\ InLoop
    /\ StartsWith(Strip(lines[i]), "Kommentariy:")
    /\ CommentText(lines[i]) # ""

\* the line before the one main is about to visit cleared the focus: a root
\* marker, or a section line of the open entity
FocusCleared ==
    /\ i > 1
    /\ \/ LineKind(lines[i - 1], None) = "root"
       \/ /\ current_object # None
          /\ LineKind(lines[i - 1], current_object) = "child"
          /\ Len(ChildParts(lines[i - 1], current_object)) = 2
          /\ ChildParts(lines[i - 1], current_object)[1] = "TablichnyeChasti"

\* C21: comment target.  A non-empty comment line becomes the comment of the
\* focus element when there is one and leaves the entity's own comment as it
\* was; without a focus it becomes the comment of the entity; right after a
\* root marker or a section line it is stored on the entity; before any root
\* marker it changes nothing.
C21_CommentTarget ==
    [][CommentAhead =>
          IF current_object = None
          THEN current_object' = None /\ saved' = saved /\ files' = files
          ELSE /\ current_object'.name = current_object.name
               /\ FocusCleared => last_typed_element = NoFocus
               /\ IF last_typed_element = NoFocus
                  THEN current_object'.data.comment = CommentText(lines[i])
                  ELSE /\ FocusElement(current_object', last_typed_element).comment
                              = CommentText(lines[i])
                       /\ current_object'.data.comment = current_object.data.comment
       ]_vars

\* an attribute came into focus, a section line cleared the focus, and the
\* comment right after the section line is on the entity, not the attribute
C21_Witness ==
    /\ pc = "loop"
    /\ i = 5
    /\ current_object # None
    /\ Len(current_object.data.attributes) = 1
    /\ current_object.data.attributes[1].comment = NoComment
    /\ Len(current_object.data.tabular_sections) = 1
    /\ current_object.data.comment = "67890 12345"


\* the position of the first occurrence of x in seq, 0 when there is none
FirstIndex(seq, x) ==
    IF \E n \in 1..Len(seq) : seq[n] = x
    THEN CHOOSE n \in 1..Len(seq) : seq[n] = x /\ \A m \in 1..(n - 1) : seq[m] # x
    ELSE 0

Range(seq) == {seq[n] : n \in 1..Len(seq)}

\* C22: task references.  A pass over a non-empty comment line of an open
\* entity leaves on its target a task list that starts with the list the
\* target had, holds besides it exactly the all-digit tokens of length >= 5
\* of the comment that were not in it, each once, in the order of their first
\* occurrence in the comment; a comment without such a token leaves the list
\* as it was; the task list of the entity is untouched when the target is the
\* focus element.
C22_TaskRefs ==
    [][CommentAhead /\ current_object # None =>
          LET old == TargetElement(current_object, last_typed_element).tasks
              new == TargetElement(current_object', last_typed_element).tasks
              found == FindTasks(CommentText(lines[i]))
          IN /\ Len(new) >= Len(old)
             /\ SubSeq(new, 1, Len(old)) = old
             /\ Range(new) = Range(old) \cup Range(found)
             /\ Distinct(new)
             /\ \A a, b \in (Len(old) + 1)..Len(new) :
                   a < b => FirstIndex(found, new[a]) < FirstIndex(found, new[b])
             /\ last_typed_element # NoFocus =>
                   current_object'.data.tasks = current_object.data.tasks
       ]_vars

\* two comments on the entity: the second repeats a number of the first and
\* brings a new one
C22_Witness ==
    /\ pc = "loop"
    /\ current_object # None
    /\ current_object.data.tasks = <<"12345", "67890">>
    /\ current_object.data.comment = "67890 12345"


\* the line main is about to visit is a dash line of the given shape for the
\* open entity
ShapeAhead(shapes) ==
    /\ InLoop
    /\ current_object # None
    /\ StartsWith(Strip(lines[i]), "-")
    /\ LineKind(lines[i], None) # "root"
    /\ ChildLineShape(lines[i], current_object.name) \in shapes

\* the section a column line names
SectionOf(line, name) == Split(From(LastElementLine(line), Len(name) + 1), ".")[2]

\* a column line whose section is not registered in the open entity
UnregisteredColumnAhead ==
    /\ ShapeAhead({"column"})
    /\ ~ODictHas(current_object.data.tabular_sections,
                 SectionOf(lines[i], current_object.name))

\* the pass changes nothing but the position in the report
PassedOver ==
    /\ current_object' = current_object
    /\ last_typed_element' = last_typed_element
    /\ saved' = saved
    /\ files' = files
    /\ i' = i + 1
    /\ pc' = pc

\* C23: recoverable skip.  A column line whose section is not registered, and
\* any dash line of the open entity that is neither a root marker nor one of
\* the three child shapes, is passed over: entity, focus and files stay as
\* they are and the loop goes on.
C23_RecoverableSkip ==
    [][UnregisteredColumnAhead \/ ShapeAhead({"none"}) => PassedOver]_vars

\* the same for the column lines alone
C23_UnregisteredColumn == [][UnregisteredColumnAhead => PassedOver]_vars

-----------------------------------------------------------------------------
(* Properties of the composite type block *)

\* the type elements of a block that ends only at a non-blank line indented
\* no deeper than the type line: blank lines inside the block are passed
RECURSIVE BlockAcrossBlanks(_, _, _)
BlockAcrossBlanks(ls, j, type_line_indent) ==
    IF j > Len(ls) THEN <<>>
    ELSE IF Strip(ls[j]) = "" THEN BlockAcrossBlanks(ls, j + 1, type_line_indent)
    ELSE IF Indent(ls[j]) > type_line_indent
    THEN <<StripSet(Strip(ls[j]), {"\"", ","})>>
         \o BlockAcrossBlanks(ls, j + 1, type_line_indent)
    ELSE <<>>

\* the line main is about to visit is a "Tip:" line and there is a focus
TypeAhead ==
    /\ InLoop
    /\ LineKind(lines[i], current_object) = "type"
    /\ last_typed_element # NoFocus

\* C24: end of a composite type block.  The block after a "Tip:" line ends
\* at the first non-blank line indented no deeper than the type line; a
\* deeper line after a blank line still belongs to it, so the focus gets the
\* elements on both sides of the blank line.
C24_BlockEnd ==
    [][TypeAhead /\ Len(BlockAcrossBlanks(lines, i + 1, Indent(lines[i]))) > 0 =>
          FocusElement(current_object', last_typed_element).type =
              Join(BlockAcrossBlanks(lines, i + 1, Indent(lines[i])), ", ")]_vars


\* line k was collected by the scan of an earlier "Tip:" line: every line
\* from that type line to k is non-blank and indented deeper than it
Collected(k) ==
    \E j \in 1..(k - 1) :
        /\ StartsWith(Strip(lines[j]), "Tip:")
        /\ \A m \in (j + 1)..k :
              Strip(lines[m]) # "" /\ Indent(lines[m]) > Indent(lines[j])

\* C27: the lookahead of a type line consumes nothing.  The line main visits
\* after a type line is the very next one, and a line that an earlier type
\* line collected as an element still has its ordinary effect when its turn
\* comes: an attribute line adds the attribute and moves the focus to it, a
\* comment line sets the comment of its target, a type line with a block of
\* its own sets the type of the focus.
C27_NoConsume ==
    [][InLoop =>
          /\ pc' = "loop" => i' = i + 1
          /\ Collected(i) /\ current_object # None =>
                LET line == lines[i]
                    shape == ChildLineShape(line, current_object.name)
                    own == TypeParts(lines, i + 1, Indent(line))
                IN /\ shape = "attribute" =>
                         /\ Len(current_object'.data.attributes)
                               = Len(current_object.data.attributes) + 1
                         /\ last_typed_element'
                               = [kind |-> "attr",
                                  idx |-> Len(current_object'.data.attributes)]
                         /\ StartsWith(Strip(line),
                               "- " \o current_object.name \o ".Rekvizity."
                                    \o FocusElement(current_object',
                                                    last_typed_element').name)
                   /\ StartsWith(Strip(line), "Kommentariy:") =>
                         TargetElement(current_object', last_typed_element).comment
                            = CommentText(line)
                   /\ (/\ StartsWith(Strip(line), "Tip:")
                       /\ last_typed_element # NoFocus
                       /\ Len(own) > 0) =>
                         FocusElement(current_object', last_typed_element).type
                            = Join(own, ", ")
       ]_vars

\* the attribute line collected as a type element of X has been visited: X
\* has the line as its type and the attribute Y of the line is in the contract
C27_Witness ==
    /\ pc = "loop"
    /\ current_object # None
    /\ Len(current_object.data.attributes) = 2
    /\ current_object.data.attributes[1].type = "- Spravochniki.A.Rekvizity.Y"
    /\ current_object.data.attributes[2].name = "Y"
    /\ last_typed_element = [kind |-> "attr", idx |-> 2]

\* a comment line collected as a type element has set the comment of X too
C27_WitnessComment ==
    /\ pc = "loop"
    /\ current_object # None
    /\ Len(current_object.data.attributes) = 1
    /\ current_object.data.attributes[1].type = "Kommentariy: \"y"
    /\ current_object.data.attributes[1].comment = "y"


\* the names of the sections of the open entity, in the order of the contract
SectionNames(obj) ==
    [n \in 1..Len(obj.data.tabular_sections) |-> obj.data.tabular_sections[n].v.name]

\* the columns collected so far in all sections of the open entity
ColumnCount(obj) ==
    LET RECURSIVE Sum(_)
        Sum(n) == IF n = 0 THEN 0
                  ELSE Len(obj.data.tabular_sections[n].v.attributes) + Sum(n - 1)
    IN Sum(Len(obj.data.tabular_sections))

\* C28: section re-registration.  No two sections of an entity have the same
\* name.  A section line for a section already registered in the open entity
\* leaves the section in its place with no column at all, leaves every other
\* section as it was, and clears the focus; a section line for a new name
\* adds an empty section at the end.
C28_Reregistration ==
    [][ShapeAhead({"section"}) =>
          LET t == SectionOf(lines[i], current_object.name)
              old == current_object.data.tabular_sections
              new == current_object'.data.tabular_sections
          IN /\ Distinct(SectionNames(current_object'))
             /\ last_typed_element' = NoFocus
             /\ ODictHas(new, t)
             /\ ODictGet(new, t) = [name |-> t, attributes |-> <<>>]
             /\ IF ODictHas(old, t)
                THEN /\ Len(new) = Len(old)
                     /\ \A n \in 1..Len(old) :
                           /\ new[n].k = old[n].k
                           /\ old[n].k # t => new[n] = old[n]
                ELSE /\ Len(new) = Len(old) + 1
                     /\ new[Len(new)].k = t
                     /\ \A n \in 1..Len(old) : new[n] = old[n]
       ]_vars

\* section T got a column, then its line occurred again: the contract holds
\* one section and no column
C28_Witness ==
    /\ pc = "loop"
    /\ i = 5
    /\ current_object # None
    /\ lines[1] = "- Spravochniki.A"
    /\ lines[2] = "  - Spravochniki.A.TablichnyeChasti.T"
    /\ lines[3] = "  - Spravochniki.A.TablichnyeChasti.T.Rekvizity.C"
    /\ lines[4] = "  - Spravochniki.A.TablichnyeChasti.T"
    /\ SectionNames(current_object) = <<"T">>
    /\ ColumnCount(current_object) = 0
    /\ last_typed_element = NoFocus

-----------------------------------------------------------------------------
(* The run of parse_bsl_module, one action per scan of the module text     *)
(*   NovyyKod = НовыйКод   Massiv = Массив   Zapros = Запрос               *)

\* the most lines of a module of ModuleSpec
MaxBslLines == 2

BslLines ==
    {"&NaKliente Protsedura P()",
     "&NaServere Protsedura P()",
     "&NaKlienteNaServere Protsedura P()",
     "Protsedura P()",
     "&NaKlienteNaServere Funktsiya F()",
     "Funktsiya F()",
     "Forma.Nom = Novyy Massiv;",
     "Forma.Nom = NovyyKod;",
     "Forma.Nom = Foo();",
     "Forma.Kod = RezultatZaprosa;",
     "Forma.Kod = 5;"}

ModuleInit ==
    /\ script \in Modules(BslLines, MaxBslLines)
    /\ conf = <<>>
    /\ files = StaleForms
    /\ pc = "open"
    /\ doc = NoFile
    /\ walked = 0
    /\ form = NewForm
    /\ module_data = NoModuleData
    /\ contract = <<>>
    /\ objects = <<>>
    /\ run_dir = ""
    /\ RunIdle
    /\ lines = <<>>
    /\ i = 0
    /\ current_object = None
    /\ last_typed_element = NoFocus
    /\ saved = <<>>

ModuleFrame ==
    UNCHANGED <<current_object, last_typed_element, saved, files, conf, doc,
                script, walked, form, contract, metaVars, runVars>>

\* lines 267-285: the module is read and the context markers are looked up
ReadModule ==
    /\ pc = "open"
    /\ script.exists
    /\ module_data' = [NoModuleData EXCEPT !.context = Context(script.content)]
    /\ pc' = "types"
    /\ UNCHANGED <<lines, i>>
    /\ ModuleFrame

\* lines 407-409: open raises, the empty module data is returned
ModuleUnreadable ==
    /\ pc = "open"
    /\ ~script.exists
    /\ module_data' = NoModuleData
    /\ pc' = "returned"
    /\ UNCHANGED <<lines, i>>
    /\ ModuleFrame

\* lines 292-300
ScanTypes ==
    /\ pc = "types"
    /\ module_data' = [module_data EXCEPT !.attribute_types =
                          AttributeTypes(FindAllTypes(script.content, 1), @)]
    /\ pc' = "assignments"
    /\ UNCHANGED <<lines, i>>
    /\ ModuleFrame

\* lines 302-357, and the split of the text into lines of line 368
ScanAssignments ==
    /\ pc = "assignments"
    /\ module_data' = [module_data EXCEPT !.form_attributes =
                          FormAttributes(FindAllFormAttrs(script.content, 1), @)]
    /\ lines' = Split(script.content, "\n")
    /\ i' = 1
    /\ pc' = "declarations"
    /\ ModuleFrame

\* lines 371-403: one pass of the loop over the lines of the module
ScanDeclaration ==
    /\ pc = "declarations"
    /\ i <= Len(lines)
    /\ module_data' = [module_data EXCEPT !.command_actions =
                          CommandActions(<<lines[i]>>, @)]
    /\ i' = i + 1
    /\ UNCHANGED <<lines, pc>>
    /\ ModuleFrame

\* line 405
ReturnModuleData ==
    /\ pc = "declarations"
    /\ i > Len(lines)
    /\ pc' = "returned"
    /\ UNCHANGED <<lines, i, module_data>>
    /\ ModuleFrame

ModuleNext ==
    \/ ReadModule
    \/ ModuleUnreadable
    \/ ScanTypes
    \/ ScanAssignments
    \/ ScanDeclaration
    \/ ReturnModuleData

ModuleSpec == ModuleInit /\ [][ModuleNext]_vars

-----------------------------------------------------------------------------
(* Properties of parse_bsl_module *)

\* the name declared by a line: the word after "Protsedura", else the word
\* after "Funktsiya", "" when the line declares nothing
DeclaredName(line) ==
    LET proc == SearchWordAfter(Strip(line), "Protsedura", 1)
    IN IF proc # "" THEN proc ELSE SearchWordAfter(Strip(line), "Funktsiya", 1)

\* the word of the directive a line carries, "" when it carries none
Directive(line) ==
    LET k == Find(line, "&")
    IN IF k = 0 THEN "" ELSE SubSeq(line, k + 1, WordEnd(line, k + 1) - 1)

\* C25: execution context of a declaration.  The action recorded for the
\* procedure or function a line declares is its name followed by the word of
\* the directive on that line (NaKliente, NaServere, NaKlienteNaServere), or
\* by " (kontekst ne opredelen)" when the line carries no directive.
C25_ExecutionContext ==
    [][pc = "declarations" /\ i <= Len(lines) /\ DeclaredName(lines[i]) # "" =>
          LET proc == DeclaredName(lines[i])
          IN ODictGet(module_data'.command_actions, proc) =
                IF Directive(lines[i]) = ""
                THEN proc \o " (kontekst ne opredelen)"
                ELSE proc \o Directive(lines[i])
       ]_vars

\* C25 without the client-and-server directive: the three other outcomes
C25_SingleContext ==
    [][(/\ pc = "declarations" /\ i <= Len(lines)
        /\ DeclaredName(lines[i]) # ""
        /\ Directive(lines[i]) # "NaKlienteNaServere") =>
          LET proc == DeclaredName(lines[i])
          IN ODictGet(module_data'.command_actions, proc) =
                IF Directive(lines[i]) = ""
                THEN proc \o " (kontekst ne opredelen)"
                ELSE proc \o Directive(lines[i])
       ]_vars


\* the assignments "Forma.<name> = <value>" of the module being parsed
Assignments == FindAllFormAttrs(script.content, 1)

\* assignment n is the last one of the module to its name
LastTo(n) ==
    \A m \in (n + 1)..Len(Assignments) : Assignments[m].name # Assignments[n].name

\* C26: assignment-based type inference.  After the scan of the assignments
\* every assigned name has an entry in form_attributes: no matched assignment
\* is left without one.
C26_TypeInference ==
    [][pc = "assignments" =>
          \A n \in 1..Len(Assignments) :
              ODictHas(module_data'.form_attributes, Assignments[n].name)
       ]_vars

\* C26 for the values without "Novyy": the entry of the name is the type of
\* the first pattern of the list that the value of its last assignment
\* contains, and "Neopredeleno" when it contains none
C26_ListedPatterns ==
    [][pc = "assignments" =>
          \A n \in 1..Len(Assignments) :
              LastTo(n) /\ ~Contains(Assignments[n].value, "Novyy") =>
                 /\ ODictHas(module_data'.form_attributes, Assignments[n].name)
                 /\ ODictGet(module_data'.form_attributes, Assignments[n].name)
                       = PatternType(Assignments[n].value, 1)
       ]_vars

-----------------------------------------------------------------------------
(* old/generate_all_contracts.py                                           *)
(*   Formy = Формы                                                         *)

\* os.path.join(args.output_dir, "Формы"), line 143: the path of a file of
\* the forms directory inside the base output directory
FormsPath(p) == "Formy/" \o p

IsFormsPath(p) == StartsWith(p, "Formy/")

\* the files of the base directory outside its forms subdirectory
OutsideForms(fs) == [p \in {q \in DOMAIN fs : ~IsFormsPath(q)} |-> fs[p]]

\* the forms subdirectory as a directory of its own
FormsDir(fs) ==
    [p \in {From(q, Len("Formy/")) : q \in {r \in DOMAIN fs : IsFormsPath(r)}}
        |-> fs[FormsPath(p)]]

\* the base directory with the forms subdirectory replaced by the directory sub
WithFormsDir(fs, sub) ==
    [p \in DOMAIN OutsideForms(fs) \cup {FormsPath(q) : q \in DOMAIN sub} |->
        IF IsFormsPath(p) THEN sub[From(p, Len("Formy/"))] ELSE fs[p]]

\* the subprocess of lines 129-135: generate_contracts.py on the report with
\* the base directory as its output directory
MetadataPass(ls, fs) == Main(ls, fs).files

\* the subprocess of lines 145-151: form_contracts_generator.py on the
\* configuration with the forms subdirectory as its output directory
FormsPass(forms, fs) ==
    WithFormsDir(fs, generate_all_form_contracts(forms, TRUE, FormsDir(fs)))

\* the return code of the metadata subprocess: main handles what it meets on
\* its way, python returns 2 for a script it cannot open
MetadataReturnCode(found) == IF found THEN 0 ELSE 2

\* the return code of the forms subprocess: 1 when the traceback of an
\* unreadable Form.xml ends it
FormsReturnCode(found, forms) ==
    IF ~found THEN 2
    ELSE IF \E k \in 1..Len(forms) : ~forms[k].file.readable THEN 1
    ELSE 0

\* run_command, lines 60-65: the pass reports success for return code 0
RunCommand(returncode) == returncode = 0

\* mutant: the status is 0 whatever the passes reported
ExitStatusZero(succeeded, started) == 0

\* lines 162-168
ExitStatus(succeeded, started) == IF succeeded = started THEN 0 ELSE 1

-----------------------------------------------------------------------------
(* The run of generate_all_contracts.main, one action per pass             *)

\* what an earlier run left in the base directory
StaleBase ==
    SetKey(StaleFiles, FormsPath("Old.json"), [owner |-> Undefined, name |-> "Old"])

OrchestratorConfigurations ==
    RerunConfigurations \cup {<<OtherForm, UnreadableForm>>}

OrchestratorInit ==
    /\ lines \in SeqsUpTo(RerunLines, MaxRerunLines)
    /\ conf \in OrchestratorConfigurations
    /\ files \in {<<>>, StaleBase}
    /\ args \in [report_exists : BOOLEAN, conf_exists : BOOLEAN,
                 skip_metadata : BOOLEAN, skip_forms : BOOLEAN,
                 scripts_found : BOOLEAN]
    /\ success_count = 0
    /\ total_count = 0
    /\ exit_status = NoStatus
    /\ pc = "check"
    /\ i = 0
    /\ current_object = None
    /\ last_typed_element = NoFocus
    /\ saved = <<>>
    /\ doc = NoFile
    /\ script = NoModule
    /\ walked = 0
    /\ form = NewForm
    /\ module_data = NoModuleData
    /\ contract = <<>>
    /\ objects = <<>>
    /\ run_dir = ""

OrchestratorFrame == UNCHANGED <<mainVars, formVars, metaVars, args>>

\* lines 110-116: a missing report or configuration directory ends the run
InputMissing ==
    /\ pc = "check"
    /\ ~args.report_exists \/ ~args.conf_exists
    /\ exit_status' = <<1>>
    /\ pc' = "exit"
    /\ UNCHANGED <<files, success_count, total_count>>
    /\ OrchestratorFrame

\* lines 118-124
InputsFound ==
    /\ pc = "check"
    /\ args.report_exists /\ args.conf_exists
    /\ pc' = "metadata"
    /\ UNCHANGED <<files, success_count, total_count, exit_status>>
    /\ OrchestratorFrame

\* lines 127-136 with run_command: the subprocess has ended when
\* subprocess.run returns; a script that python cannot open changes nothing
\* and returns a code other than 0
MetadataPassRuns ==
    /\ pc = "metadata"
    /\ ~args.skip_metadata
    /\ total_count' = total_count + 1
    /\ files' = IF args.scripts_found THEN MetadataPass(lines, files) ELSE files
    /\ success_count' = IF RunCommand(MetadataReturnCode(args.scripts_found))
                        THEN success_count + 1 ELSE success_count
    /\ pc' = "forms"
    /\ UNCHANGED exit_status
    /\ OrchestratorFrame

\* lines 137-138
MetadataPassSkipped ==
    /\ pc = "metadata"
    /\ args.skip_metadata
    /\ pc' = "forms"
    /\ UNCHANGED <<files, success_count, total_count, exit_status>>
    /\ OrchestratorFrame

\* lines 141-152 with run_command
FormsPassRuns ==
    /\ pc = "forms"
    /\ ~args.skip_forms
    /\ total_count' = total_count + 1
    /\ files' = IF args.scripts_found THEN FormsPass(conf, files) ELSE files
    /\ success_count' = IF RunCommand(FormsReturnCode(args.scripts_found, conf))
                        THEN success_count + 1 ELSE success_count
    /\ pc' = "report"
    /\ UNCHANGED exit_status
    /\ OrchestratorFrame

\* lines 153-154
FormsPassSkipped ==
    /\ pc = "forms"
    /\ args.skip_forms
    /\ pc' = "report"
    /\ UNCHANGED <<files, success_count, total_count, exit_status>>
    /\ OrchestratorFrame

\* lines 156-168
FinalReport ==
    /\ pc = "report"
    /\ exit_status' = <<ExitStatus(success_count, total_count)>>
    /\ pc' = "exit"
    /\ UNCHANGED <<files, success_count, total_count>>
    /\ OrchestratorFrame

OrchestratorNext ==
    \/ InputMissing
    \/ InputsFound
    \/ MetadataPassRuns
    \/ MetadataPassSkipped
    \/ FormsPassRuns
    \/ FormsPassSkipped
    \/ FinalReport

OrchestratorSpec == OrchestratorInit /\ [][OrchestratorNext]_vars


-----------------------------------------------------------------------------
(* Properties of generate_all_contracts.main *)

\* the run got past the checks of its inputs and the pass reported success
MetadataSucceeded ==
    /\ args.report_exists /\ args.conf_exists
    /\ RunCommand(MetadataReturnCode(args.scripts_found))

FormsSucceeded ==
    /\ args.report_exists /\ args.conf_exists
    /\ RunCommand(FormsReturnCode(args.scripts_found, conf))

\* the form contracts the forms pass of this run has written
FormsWritten ==
    IF pc \in {"report", "exit"} /\ args.report_exists /\ args.conf_exists
       /\ ~args.skip_forms /\ args.scripts_found
    THEN {FormsPath(p) : p \in DOMAIN SaveAllForms(conf, <<>>)}
    ELSE {}

\* C29: ordering of the passes.  The metadata pass has ended before the forms
\* pass starts: while the metadata pass is due no form contract is added,
\* and from the start of the forms pass on nothing outside the forms
\* subdirectory changes, so the clearing of the base directory is over.
\* The form contracts written by the forms pass are all in the base
\* directory from then on.  A run with a pass that is not skipped returns 0
\* exactly when every pass that was not skipped reported success.
C29_PassOrder ==
    /\ [](FormsWritten \subseteq DOMAIN files)
    /\ [](pc = "exit" /\ ~(args.skip_metadata /\ args.skip_forms) =>
             (exit_status = <<0>> <=>
                 /\ args.skip_metadata \/ MetadataSucceeded
                 /\ args.skip_forms \/ FormsSucceeded))
    /\ [][/\ pc \in {"check", "metadata"} =>
                DOMAIN FormsDir(files') \subseteq DOMAIN FormsDir(files)
          /\ pc \in {"forms", "report", "exit"} =>
                OutsideForms(files') = OutsideForms(files)
          /\ pc \in {"report", "exit"} => files' = files]_vars

\* both passes ran over a base directory that an earlier run had filled: the
\* old contracts are gone, the contracts of the report and of the form are
\* there, and the status is 0
C29_Witness ==
    /\ pc = "exit"
    /\ ~args.skip_metadata /\ ~args.skip_forms
    /\ exit_status = <<0>>
    /\ lines = <<"- Spravochniki.A">>
    /\ conf = <<OtherForm>>
    /\ DOMAIN files = {"Spravochniki/A.json", FormsPath("G.json")}

\* the forms pass ended on an unreadable form after the metadata pass: the
\* status is 1
C29_WitnessFailed ==
    /\ pc = "exit"
    /\ ~args.skip_metadata /\ ~args.skip_forms /\ args.scripts_found
    /\ args.report_exists /\ args.conf_exists
    /\ conf = <<OtherForm, UnreadableForm>>
    /\ success_count = 1 /\ total_count = 2
    /\ exit_status = <<1>>

-----------------------------------------------------------------------------
(* src/core/module_generator.py: parse_object_xml                          *)
(*   OshibkaParsinga = Ошибка парсинга                                     *)
(*                                                                         *)
(* An object document is the sequence of its elements in document order,   *)
(* each [depth, tag, text] with the tag prefixed as in the namespaces map.  *)

\* ".//tag" from element k: the positions of its descendants with that tag,
\* mutant: "./tag", its children only
FindAllChildren(d, k, tag) ==
    SelectSeq([n \in 1..Len(d) |-> n],
              LAMBDA j : IsChild(d, k, j) /\ d[j].tag = tag)

\* element.findall('.//tag'): the descendants of element k with that tag, in
\* document order
FindAllBelow(d, k, tag) ==
    SelectSeq([n \in 1..Len(d) |-> n],
              LAMBDA j : /\ j > k
                         /\ \A m \in (k + 1)..j : d[m].depth > d[k].depth
                         /\ d[j].tag = tag)

\* element.find('.//tag'): the first of them, 0 for None
FindBelow(d, k, tag) ==
    LET found == FindAllBelow(d, k, tag)
    IN IF Len(found) = 0 THEN 0 ELSE found[1]

\* lines 90-100 and 113-122: the entries of the Attribute elements below k
RECURSIVE NamedEntries(_, _)
NamedEntries(d, found) ==
    IF Len(found) = 0 THEN <<>>
    ELSE LET name_elem == FindBelow(d, Head(found), "mdclass:Name")
             type_elem == FindBelow(d, Head(found), "core:Type")
         IN (IF name_elem # 0
             THEN <<[name |-> d[name_elem].text,
                     type |-> IF type_elem # 0 THEN d[type_elem].text
                              ELSE Undefined]>>
             ELSE <<>>)
            \o NamedEntries(d, Tail(found))

ObjectAttributes(d) == NamedEntries(d, FindAllBelow(d, 1, "mdclass:Attribute"))

\* lines 103-124
RECURSIVE SectionEntries(_, _)
SectionEntries(d, found) ==
    IF Len(found) = 0 THEN <<>>
    ELSE LET name_elem == FindBelow(d, Head(found), "mdclass:Name")
         IN (IF name_elem # 0
             THEN <<[name |-> d[name_elem].text,
                     columns |-> NamedEntries(d,
                         FindAllBelow(d, Head(found), "mdclass:Attribute"))]>>
             ELSE <<>>)
            \o SectionEntries(d, Tail(found))

ObjectSections(d) == SectionEntries(d, FindAllBelow(d, 1, "mdclass:TabularSection"))

\* lines 127-132
RECURSIVE FormNames(_, _)
FormNames(d, found) ==
    IF Len(found) = 0 THEN <<>>
    ELSE LET name_elem == FindBelow(d, Head(found), "mdclass:Name")
         IN (IF name_elem # 0 THEN <<d[name_elem].text>> ELSE <<>>)
            \o FormNames(d, Tail(found))

ObjectForms(d) == FormNames(d, FindAllBelow(d, 1, "mdclass:Form"))

\* lines 135-141
default_modules == <<"ObjectModule", "ManagerModule", "FormModule">>

ObjectDirs == {"Catalogs", "Documents", "Reports", "DataProcessors",
               "ExternalDataProcessors"}

\* lines 83-87: the first part of the path that names an object directory
RECURSIVE ObjectDirFrom(_, _)
ObjectDirFrom(parts, n) ==
    IF n > Len(parts) THEN Undefined
    ELSE IF parts[n] \in ObjectDirs THEN parts[n]
    ELSE ObjectDirFrom(parts, n + 1)

\* xml_path.stem of a path that ends in "<stem>.xml"
Stem(parts) == SubSeq(parts[Len(parts)], 1, Len(parts[Len(parts)]) - Len(".xml"))

\* lines 73-80
NewObjectData(parts) ==
    [name |-> Stem(parts), type |-> Undefined, attributes |-> <<>>,
     tabular_sections |-> <<>>, forms |-> <<>>, modules |-> <<>>]

\* lines 150-158
FailedObjectData(parts) ==
    [name |-> Stem(parts), type |-> "OshibkaParsinga", attributes |-> <<>>,
     tabular_sections |-> <<>>, forms |-> <<>>, modules |-> <<>>]

-----------------------------------------------------------------------------
(* The run of parse_object_xml, one action per search of the document *)

\* the most elements below the root of an object document of ObjectSpec
MaxObjectNodes == 4

ObjectRoot == [depth |-> 0, tag |-> "MetaDataObject", text |-> ""]

ObjectNodes ==
    {[depth |-> 1, tag |-> "mdclass:Attribute", text |-> ""],
     [depth |-> 2, tag |-> "mdclass:Attribute", text |-> ""],
     [depth |-> 1, tag |-> "mdclass:TabularSection", text |-> ""],
     [depth |-> 1, tag |-> "mdclass:Form", text |-> ""],
     [depth |-> 2, tag |-> "mdclass:Name", text |-> "T"],
     [depth |-> 2, tag |-> "core:Type", text |-> "Stroka"],
     [depth |-> 3, tag |-> "mdclass:Name", text |-> "C"]}

ObjectPaths ==
    {<<"conf", "Catalogs", "A.xml">>, <<"conf", "Other", "B.xml">>}

ObjectFiles ==
    {[path |-> p, readable |-> r, wellformed |-> FALSE, elements |-> <<>>] :
        p \in ObjectPaths, r \in BOOLEAN} \cup
    {[path |-> p, readable |-> TRUE, wellformed |-> TRUE,
      elements |-> <<ObjectRoot>> \o t] :
        p \in ObjectPaths,
        t \in {u \in SeqsUpTo(ObjectNodes, MaxObjectNodes) :
                  IsTree(<<ObjectRoot>> \o u)}}

ObjectInit ==
    /\ doc \in ObjectFiles
    /\ conf = <<>>
    /\ files = <<>>
    /\ pc = "open"
    /\ script = NoModule
    /\ walked = 0
    /\ form = NewForm
    /\ module_data = NoModuleData
    /\ contract = <<>>
    /\ objects = <<>>
    /\ run_dir = ""
    /\ RunIdle
    /\ lines = <<>>
    /\ i = 0
    /\ current_object = None
    /\ last_typed_element = NoFocus
    /\ saved = <<>>

ObjectFrame ==
    UNCHANGED <<mainVars, files, conf, doc, script, walked, form, module_data,
                metaVars, runVars>>

\* lines 64-87: the document is parsed, object_data starts with the stem of
\* the path and the type its directory gives
OpenObject ==
    /\ pc = "open"
    /\ doc.readable /\ doc.wellformed
    /\ contract' = [NewObjectData(doc.path) EXCEPT
                       !.type = ObjectDirFrom(doc.path, 1)]
    /\ pc' = "attributes"
    /\ ObjectFrame

\* lines 148-158: ET.parse raises
ObjectFails ==
    /\ pc = "open"
    /\ ~(doc.readable /\ doc.wellformed)
    /\ contract' = FailedObjectData(doc.path)
    /\ pc' = "returned"
    /\ ObjectFrame

\* lines 89-100
FindAttributes ==
    /\ pc = "attributes"
    /\ contract' = [contract EXCEPT !.attributes = ObjectAttributes(doc.elements)]
    /\ pc' = "sections"
    /\ ObjectFrame

\* lines 102-124
FindSections ==
    /\ pc = "sections"
    /\ contract' = [contract EXCEPT
                       !.tabular_sections = ObjectSections(doc.elements)]
    /\ pc' = "forms"
    /\ ObjectFrame

\* lines 126-132
FindForms ==
    /\ pc = "forms"
    /\ contract' = [contract EXCEPT !.forms = ObjectForms(doc.elements)]
    /\ pc' = "modules"
    /\ ObjectFrame

\* lines 134-143
SetModules ==
    /\ pc = "modules"
    /\ contract' = [contract EXCEPT !.modules = default_modules]
    /\ pc' = "returned"
    /\ ObjectFrame

ObjectNext ==
    \/ OpenObject
    \/ ObjectFails
    \/ FindAttributes
    \/ FindSections
    \/ FindForms
    \/ SetModules

ObjectSpec == ObjectInit /\ [][ObjectNext]_vars

-----------------------------------------------------------------------------
(* Properties of parse_object_xml *)

\* the Attribute elements of the document that have a Name below them, at
\* whatever depth, in document order
NamedAttributeElements ==
    SelectSeq([n \in 1..Len(doc.elements) |-> n],
        LAMBDA j : /\ doc.elements[j].tag = "mdclass:Attribute"
                   /\ \E m \in (j + 1)..Len(doc.elements) :
                         /\ doc.elements[m].tag = "mdclass:Name"
                         /\ \A q \in (j + 1)..m :
                               doc.elements[q].depth > doc.elements[j].depth)

\* how often the entry e occurs in the list
Occurrences(list, e) == Cardinality({n \in 1..Len(list) : list[n] = e})

\* C30: the lists of a parsed object.  The top-level attributes list has one
\* entry for every named Attribute element of the document, at any depth, so
\* every column of every tabular section is in the top-level list as well;
\* the modules list of a parsed object is ObjectModule, ManagerModule,
\* FormModule, that of an object whose parse failed is empty.
C30_ObjectLists ==
    pc = "returned" =>
        IF doc.readable /\ doc.wellformed
        THEN /\ contract.modules = <<"ObjectModule", "ManagerModule", "FormModule">>
             /\ Len(contract.attributes) = Len(NamedAttributeElements)
             /\ \A s \in 1..Len(contract.tabular_sections) :
                   \A c \in 1..Len(contract.tabular_sections[s].columns) :
                       Occurrences(contract.attributes,
                                   contract.tabular_sections[s].columns[c]) >= 1
        ELSE /\ contract.modules = <<>>
             /\ contract.attributes = <<>>
             /\ contract.type = "OshibkaParsinga"

\* a document with the section T and its column C: C is a column of T and an
\* entry of the top-level list
C30_Witness ==
    /\ pc = "returned"
    /\ contract.tabular_sections =
          <<[name |-> "T", columns |-> <<[name |-> "C", type |-> Undefined]>>]>>
    /\ contract.attributes = <<[name |-> "C", type |-> Undefined]>>
    /\ contract.modules = default_modules

\* an object whose document is not well-formed
C30_WitnessFailed ==
    /\ pc = "returned"
    /\ doc.readable /\ ~doc.wellformed
    /\ contract.modules = <<>>

=============================================================================
